---- MODULE Spec2Model ----
(***************************************************************************)
(* Version store of the ToS monitor: LocalStorage.store_tos_document and   *)
(* the blob files it keeps per document under tos/<doc_id>/                *)
(* (current.txt, current.json, last.txt, prev.txt, changed, <date>.txt,    *)
(* <date>.json).  CloudStorage.store_tos_document is line for line the     *)
(* same algorithm over bucket blobs.                                       *)
(*                                                                         *)
(* A file is modelled as a sequence: << >> is "no such file" (what         *)
(* download_file returns as None) and <<v>> is a file holding v.  A date   *)
(* label YYYY-MM-DD is modelled by its day number; the label is never an   *)
(* empty string, and strip() leaves it as it is.                           *)
(*                                                                         *)
(* Diff lineage: process_document_diff over the blobs under                *)
(* snapshots/<doc_id>/<date>/, diffs/<doc_id>/<date>/ and latest/<doc_id>/ *)
(* with the LLM client as an outside party whose answer is any of its      *)
(* possible return values.                                                 *)
(***************************************************************************)
EXTENDS Naturals, FiniteSets, Sequences, TLC

\* ------------------------------------------------------------- bounds
MaxDay == 3
MaxIngests == 3
MaxRuns == 2
MaxBatches == 1
MaxCalls == 2
MaxTextLen == 3

\* ------------------------------------------------------------- domains
Docs == {"d1", "d2"}
Dates == 1..MaxDay
\* normalized text handed to the store; process_document never passes an
\* empty text (fetch_docs.py 211-220)
Contents == {"a", "b"}
\* metadata["hashes"]["structural"]: "None" is what .get() yields when the key
\* (or the whole "hashes" dict) is missing, "" is generate_hash's failure value
None == "None"
StructuralHashes == {None, "", "h1", "h2"}
Metadatas == [structural : StructuralHashes]

NoFile == << >>
File(v) == <<v>>

\* the files of one document directory tos/<doc_id>/
EmptyDoc ==
    [current_txt |-> NoFile, current_json |-> NoFile,
     last_txt |-> NoFile, prev_txt |-> NoFile, changed |-> NoFile,
     dated_txt |-> [t \in Dates |-> NoFile],
     dated_json |-> [t \in Dates |-> NoFile]]

\* the steps of store_tos_document that read, and those that write
ReadSteps == {"last", "last_content", "last_metadata", "last_again"}
WriteSteps == {"current_txt", "current_json", "prev", "last",
               "dated_txt", "dated_json", "changed", "delete_changed"}

\* texts whose snapshots the diff step compares: "b" is "a" with another
\* date in it (other structural hash, same fingerprint), "c" has a new clause
DiffContents == {"a", "b", "c"}

\* the files of snapshots/<doc_id>/, latest/<doc_id>/ and diffs/<doc_id>/
EmptySnapshots ==
    [content_txt |-> [t \in Dates |-> NoFile],
     metadata_json |-> [t \in Dates |-> NoFile]]
EmptyLatest ==
    [content_txt |-> NoFile, metadata_json |-> NoFile,
     diff_txt |-> NoFile, diff_metadata_json |-> NoFile]
EmptyDiffs ==
    [diff_txt |-> [t \in Dates |-> NoFile],
     metadata_json |-> [t \in Dates |-> NoFile]]
EmptyStore ==
    [snapshots |-> [d \in Docs |-> EmptySnapshots],
     latest |-> [d \in Docs |-> EmptyLatest],
     diffs |-> [d \in Docs |-> EmptyDiffs]]

\* what llm_client.compare_documents can return: None, "", or a summary
LlmOutputs == {NoFile, File(""), File("summary")}
\* the downloads of process_document_diff that load the two snapshots
LoadSteps == {"previous_content", "current_content",
              "previous_metadata", "current_metadata"}

VARIABLES tos, today, call, result, hist, ncalls, store, run, llm, nruns,
          batch, fetch, proc, cmp, prm

\* the calls of the pure helpers: a hash comparison and a prompt selection
pure == <<cmp, prm>>

\* the variables only the batch endpoints and the fetcher write
aux == <<batch, fetch, proc, pure>>

vars == <<tos, today, call, result, hist, ncalls, store, run, llm, nruns, aux>>

\* ------------------------------------------------------------- blob store
\* upload_file: writes the file, or fails (returns False) leaving it alone
upload_file(fs, d, name, v, ok) ==
    IF ok THEN [fs EXCEPT ![d][name] = File(v)] ELSE fs

upload_dated(fs, d, name, t, v, ok) ==
    IF ok THEN [fs EXCEPT ![d][name][t] = File(v)] ELSE fs

\* download_file: the file's text, or None when missing or unreadable
download_file(fs, d, name, ok) ==
    IF ok THEN fs[d][name] ELSE NoFile

download_dated(fs, d, name, t, ok) ==
    IF ok THEN fs[d][name][t] ELSE NoFile

delete_file(fs, d, name, ok) ==
    IF ok THEN [fs EXCEPT ![d][name] = NoFile] ELSE fs

\* Python truth value of a downloaded text: None and "" are both false
Truthy(f) == f /= NoFile /\ f[1] /= ""

\* metadata.get("hashes", {}).get("structural")
get_structural(metadata) == metadata.structural

\* ------------------------------------------------------------- store_tos_document
\* mutant: the metadata of current is not rewritten
write_current_content_only(fs, d, content, metadata, wf) ==
    upload_file(fs, d, "current_txt", content, "current_txt" \notin wf)

\* lines 1022-1027: always store as current first
write_current(fs, d, content, metadata, wf) ==
    LET f1 == upload_file(fs, d, "current_txt", content, "current_txt" \notin wf)
    IN  upload_file(f1, d, "current_json", metadata, "current_json" \notin wf)

\* mutant: changes_detected starts False, so nothing to compare with means
\* no change
detect_changes_fail_closed(fs, d, metadata, rf) ==
    LET last_date_str == download_file(fs, d, "last_txt", "last" \notin rf)
    IN  IF last_date_str /= NoFile
        THEN LET last_date == last_date_str[1]
                 last_content ==
                     download_dated(fs, d, "dated_txt", last_date,
                                    "last_content" \notin rf)
                 last_metadata_str ==
                     download_dated(fs, d, "dated_json", last_date,
                                    "last_metadata" \notin rf)
             IN  IF Truthy(last_content) /\ last_metadata_str /= NoFile
                 THEN ~(get_structural(last_metadata_str[1])
                            = get_structural(metadata))
                 ELSE FALSE
        ELSE FALSE

\* mutant: the new hash is compared with the one of current.json
detect_changes_vs_current(fs, d, metadata, rf) ==
    LET last_date_str == download_file(fs, d, "last_txt", "last" \notin rf)
    IN  IF last_date_str /= NoFile
        THEN LET last_content == fs[d].current_txt
                 last_metadata_str == fs[d].current_json
             IN  IF Truthy(last_content) /\ last_metadata_str /= NoFile
                 THEN ~(get_structural(last_metadata_str[1])
                            = get_structural(metadata))
                 ELSE TRUE
        ELSE TRUE

\* lines 1032-1058: compare with the snapshot the last pointer names
detect_changes(fs, d, metadata, rf) ==
    LET last_date_str == download_file(fs, d, "last_txt", "last" \notin rf)
    IN  IF last_date_str /= NoFile
        THEN LET last_date == last_date_str[1]
                 last_content ==
                     download_dated(fs, d, "dated_txt", last_date,
                                    "last_content" \notin rf)
                 last_metadata_str ==
                     download_dated(fs, d, "dated_json", last_date,
                                    "last_metadata" \notin rf)
             IN  IF Truthy(last_content) /\ last_metadata_str /= NoFile
                 THEN ~(get_structural(last_metadata_str[1])
                            = get_structural(metadata))
                 ELSE TRUE
        ELSE TRUE

\* mutant: last is overwritten before it is copied to prev
roll_pointers_last_first(fs, d, content, metadata, timestamp, rf, wf) ==
    LET f1 == upload_file(fs, d, "last_txt", timestamp, "last" \notin wf)
        last_date_str == download_file(f1, d, "last_txt", "last_again" \notin rf)
        f2 == IF last_date_str /= NoFile
              THEN upload_file(f1, d, "prev_txt", last_date_str[1],
                               "prev" \notin wf)
              ELSE f1
        f3 == upload_dated(f2, d, "dated_txt", timestamp, content,
                           "dated_txt" \notin wf)
        f4 == upload_dated(f3, d, "dated_json", timestamp, metadata,
                           "dated_json" \notin wf)
    IN  upload_file(f4, d, "changed", timestamp, "changed" \notin wf)

\* mutant: prev is written even when there is no last date to move
roll_pointers_always_prev(fs, d, content, metadata, timestamp, rf, wf) ==
    LET last_date_str == download_file(fs, d, "last_txt", "last_again" \notin rf)
        f1 == upload_file(fs, d, "prev_txt",
                          IF last_date_str /= NoFile
                          THEN last_date_str[1] ELSE timestamp,
                          "prev" \notin wf)
        f2 == upload_file(f1, d, "last_txt", timestamp, "last" \notin wf)
        f3 == upload_dated(f2, d, "dated_txt", timestamp, content,
                           "dated_txt" \notin wf)
        f4 == upload_dated(f3, d, "dated_json", timestamp, metadata,
                           "dated_json" \notin wf)
    IN  upload_file(f4, d, "changed", timestamp, "changed" \notin wf)

\* mutant: only two snapshots are kept, the one the old prev names is removed
roll_pointers_prunes_prev(fs, d, content, metadata, timestamp, rf, wf) ==
    LET last_date_str == download_file(fs, d, "last_txt", "last_again" \notin rf)
        old_prev == fs[d].prev_txt
        f0 == IF old_prev /= NoFile
              THEN [fs EXCEPT ![d].dated_txt[old_prev[1]] = NoFile,
                              ![d].dated_json[old_prev[1]] = NoFile]
              ELSE fs
        f1 == IF last_date_str /= NoFile
              THEN upload_file(f0, d, "prev_txt", last_date_str[1],
                               "prev" \notin wf)
              ELSE f0
        f2 == upload_file(f1, d, "last_txt", timestamp, "last" \notin wf)
        f3 == upload_dated(f2, d, "dated_txt", timestamp, content,
                           "dated_txt" \notin wf)
        f4 == upload_dated(f3, d, "dated_json", timestamp, metadata,
                           "dated_json" \notin wf)
    IN  upload_file(f4, d, "changed", timestamp, "changed" \notin wf)

\* mutant: a dated snapshot that exists already is kept (first writer wins)
roll_pointers_keeps_first(fs, d, content, metadata, timestamp, rf, wf) ==
    LET last_date_str == download_file(fs, d, "last_txt", "last_again" \notin rf)
        f1 == IF last_date_str /= NoFile
              THEN upload_file(fs, d, "prev_txt", last_date_str[1],
                               "prev" \notin wf)
              ELSE fs
        f2 == upload_file(f1, d, "last_txt", timestamp, "last" \notin wf)
        f3 == upload_dated(f2, d, "dated_txt", timestamp, content,
                           "dated_txt" \notin wf
                               /\ fs[d].dated_txt[timestamp] = NoFile)
        f4 == upload_dated(f3, d, "dated_json", timestamp, metadata,
                           "dated_json" \notin wf
                               /\ fs[d].dated_json[timestamp] = NoFile)
    IN  upload_file(f4, d, "changed", timestamp, "changed" \notin wf)

\* lines 1063-1088: last -> prev, timestamp -> last, dated snapshot, changed
roll_pointers(fs, d, content, metadata, timestamp, rf, wf) ==
    LET last_date_str == download_file(fs, d, "last_txt", "last_again" \notin rf)
        f1 == IF last_date_str /= NoFile
              THEN upload_file(fs, d, "prev_txt", last_date_str[1],
                               "prev" \notin wf)
              ELSE fs
        f2 == upload_file(f1, d, "last_txt", timestamp, "last" \notin wf)
        f3 == upload_dated(f2, d, "dated_txt", timestamp, content,
                           "dated_txt" \notin wf)
        f4 == upload_dated(f3, d, "dated_json", timestamp, metadata,
                           "dated_json" \notin wf)
    IN  upload_file(f4, d, "changed", timestamp, "changed" \notin wf)

\* mutant: the changed file is left in place
clear_changed_noop(fs, d, wf) == fs

\* mutant: the wrong file is removed
clear_changed_removes_last(fs, d, wf) ==
    delete_file(fs, d, "last_txt", "delete_changed" \notin wf)

\* lines 1090-1093: remove the changed file
clear_changed(fs, d, wf) ==
    delete_file(fs, d, "changed", "delete_changed" \notin wf)

\* mutant: the timestamp is reported whether or not a snapshot was created
tos_result_always_timestamp(changes_detected, snapshot_created, timestamp) ==
    [changes_detected |-> changes_detected,
     snapshot_created |-> snapshot_created,
     timestamp |-> File(timestamp)]

\* lines 1095-1099: the dict handed back to the caller (None is << >>)
tos_result(changes_detected, snapshot_created, timestamp) ==
    [changes_detected |-> changes_detected,
     snapshot_created |-> snapshot_created,
     timestamp |-> IF snapshot_created THEN File(timestamp) ELSE NoFile]

\* mutant: the dated snapshot is written outside the changed branch
store_tos_document_always_snapshot(fs, d, content, metadata, timestamp, rf, wf) ==
    LET f1 == write_current(fs, d, content, metadata, wf)
        changes_detected == detect_changes(f1, d, metadata, rf)
        f2 == IF changes_detected
              THEN roll_pointers(f1, d, content, metadata, timestamp, rf, wf)
              ELSE clear_changed(f1, d, wf)
        f3 == upload_dated(f2, d, "dated_txt", timestamp, content,
                           "dated_txt" \notin wf)
        f4 == upload_dated(f3, d, "dated_json", timestamp, metadata,
                           "dated_json" \notin wf)
        snapshot_created == IF changes_detected THEN TRUE ELSE FALSE
    IN  [fs |-> f4,
         result |-> tos_result(changes_detected, snapshot_created, timestamp)]

\* lines 1015-1099; snapshot_created starts False (line 1033) and is set True
\* at the end of the changed branch (line 1088)
store_tos_document(fs, d, content, metadata, timestamp, rf, wf) ==
    LET f1 == write_current(fs, d, content, metadata, wf)
        changes_detected == detect_changes(f1, d, metadata, rf)
        f2 == IF changes_detected
              THEN roll_pointers(f1, d, content, metadata, timestamp, rf, wf)
              ELSE clear_changed(f1, d, wf)
        snapshot_created == IF changes_detected THEN TRUE ELSE FALSE
    IN  [fs |-> f2,
         result |-> tos_result(changes_detected, snapshot_created, timestamp)]

\* ------------------------------------------------------------- get_tos_document
\* a version label: current, last, prev, or a date
Version(label, t) == [label |-> label, date |-> t]
Versions ==
    {Version(l, 1) : l \in {"current", "last", "prev"}}
        \cup {Version("date", t) : t \in Dates}

\* mutant: prev is resolved through the last pointer
get_tos_document_prev_as_last(fs, d, version) ==
    LET pointer == fs[d].last_txt
        snapshot(content, metadata_str) ==
            IF Truthy(content) /\ metadata_str /= NoFile
            THEN File([content |-> content[1], metadata |-> metadata_str[1]])
            ELSE NoFile
    IN  IF version.label = "current"
        THEN snapshot(fs[d].current_txt, fs[d].current_json)
        ELSE IF version.label \in {"last", "prev"}
        THEN IF pointer = NoFile
             THEN NoFile
             ELSE snapshot(fs[d].dated_txt[pointer[1]],
                           fs[d].dated_json[pointer[1]])
        ELSE snapshot(fs[d].dated_txt[version.date],
                      fs[d].dated_json[version.date])

\* lines 1101-1133: None (<< >>) or the {content, metadata} dict
get_tos_document(fs, d, version) ==
    LET pointer == IF version.label = "last" THEN fs[d].last_txt
                   ELSE fs[d].prev_txt
        snapshot(content, metadata_str) ==
            IF Truthy(content) /\ metadata_str /= NoFile
            THEN File([content |-> content[1], metadata |-> metadata_str[1]])
            ELSE NoFile
    IN  IF version.label = "current"
        THEN snapshot(fs[d].current_txt, fs[d].current_json)
        ELSE IF version.label \in {"last", "prev"}
        THEN IF pointer = NoFile
             THEN NoFile
             ELSE snapshot(fs[d].dated_txt[pointer[1]],
                           fs[d].dated_json[pointer[1]])
        ELSE snapshot(fs[d].dated_txt[version.date],
                      fs[d].dated_json[version.date])

\* ------------------------------------------------------------- snapshots and diffs
\* lines 773-803: snapshot of the day, and the latest copy
store_document_snapshot(st, d, content, metadata, timestamp) ==
    LET s1 == upload_dated(st.snapshots, d, "content_txt", timestamp, content,
                           TRUE)
        s2 == upload_dated(s1, d, "metadata_json", timestamp, metadata, TRUE)
        l1 == upload_file(st.latest, d, "content_txt", content, TRUE)
        l2 == upload_file(l1, d, "metadata_json", metadata, TRUE)
    IN  [st EXCEPT !.snapshots = s2, !.latest = l2]

\* sorted(list(timestamps), reverse=True): the labels are fixed-width
\* YYYY-MM-DD strings, whose lexicographic order is the order of the days
RECURSIVE SortedDescending(_)
SortedDescending(S) ==
    IF S = {}
    THEN << >>
    ELSE LET newest == CHOOSE t \in S : \A u \in S : u <= t
         IN  <<newest>> \o SortedDescending(S \ {newest})

\* lines 831-853: the <date> directories that hold any file, newest first
get_document_snapshots(st, d) ==
    SortedDescending({t \in Dates :
                         \/ st.snapshots[d].content_txt[t] /= NoFile
                         \/ st.snapshots[d].metadata_json[t] /= NoFile})

\* mutant: the diff of the day is written, the latest-diff copy is not
store_diff_dated_only(st, d, diff_content, metadata, timestamp) ==
    LET d1 == upload_dated(st.diffs, d, "diff_txt", timestamp, diff_content,
                           TRUE)
        d2 == upload_dated(d1, d, "metadata_json", timestamp, metadata, TRUE)
    IN  [st EXCEPT !.diffs = d2]

\* lines 856-886: the diff of the day, and the latest-diff copy
store_diff(st, d, diff_content, metadata, timestamp) ==
    LET d1 == upload_dated(st.diffs, d, "diff_txt", timestamp, diff_content,
                           TRUE)
        d2 == upload_dated(d1, d, "metadata_json", timestamp, metadata, TRUE)
        l1 == upload_file(st.latest, d, "diff_txt", diff_content, TRUE)
        l2 == upload_file(l1, d, "diff_metadata_json", metadata, TRUE)
    IN  [st EXCEPT !.diffs = d2, !.latest = l2]

\* lines 888-912: None (<< >>) or the {content, metadata} dict
get_latest_diff(st, d) ==
    LET content == download_file(st.latest, d, "diff_txt", TRUE)
        metadata_str == download_file(st.latest, d, "diff_metadata_json", TRUE)
    IN  IF content = NoFile \/ metadata_str = NoFile
        THEN NoFile
        ELSE File([content |-> content[1], metadata |-> metadata_str[1]])

\* ------------------------------------------------------------- hashing
\* dict.get(key, default)
dict_get(dict, key, default) == IF key \in DOMAIN dict THEN dict[key] ELSE default

\* mutant: two hashes are compared whether or not both are there
has_content_changed_by_inequality(old_hash, new_hash) ==
    old_hash /= new_hash

\* hashing.py 147-169: a hash that is missing or empty counts as changed
has_content_changed(old_hash, new_hash) ==
    IF old_hash \in {None, ""} \/ new_hash \in {None, ""}
    THEN TRUE
    ELSE old_hash /= new_hash

\* hashing.py 171-192: one entry for every hash type of either side
compare_hashes(old_hashes, new_hashes) ==
    [hash_type \in DOMAIN old_hashes \cup DOMAIN new_hashes |->
        has_content_changed(dict_get(old_hashes, hash_type, ""),
                            dict_get(new_hashes, hash_type, ""))]

\* hashing.py 210-225
should_create_snapshot(old_hashes, new_hashes) ==
    dict_get(compare_hashes(old_hashes, new_hashes), "structural", TRUE)

\* mutant: the diff is gated on the structural hash, as the snapshot is
should_generate_diff_structural(old_hashes, new_hashes) ==
    compare_hashes(old_hashes, new_hashes).structural

\* hashing.py 227-242
should_generate_diff(old_hashes, new_hashes) ==
    dict_get(compare_hashes(old_hashes, new_hashes), "fingerprint", TRUE)

\* hashing.py 194-208: the digests of the normalized forms of a text; the
\* fingerprint form also drops dates, so "a" and "b" share it
generate_all_hashes(content) ==
    [structural |-> IF content = "a" THEN "h1"
                    ELSE IF content = "b" THEN "h2"
                    ELSE IF content = "c" THEN "h3" ELSE "h4",
     fingerprint |-> IF content \in {"a", "b"} THEN "g1"
                     ELSE IF content = "c" THEN "g2" ELSE "g3"]

\* hashing.py 244-276: metadata["hashes"] is all the model keeps of it
create_metadata(content) == generate_all_hashes(content)

\* the hash dictionaries compared: any of the three types may be missing,
\* null or empty
HashTypes == {"content", "structural", "fingerprint"}
HashValues == {None, "", "h1", "h2"}
HashDicts == UNION {[S -> HashValues] : S \in SUBSET HashTypes}

\* ------------------------------------------------------------- hashing a text
\* A text is a sequence of characters: a whitespace character, a letter, a
\* punctuation mark of [,.;:!?], or "D", a date, version number or copyright
\* year as the patterns of hashing.py 103-138 match it.
Chars == {" ", "a", ",", "D"}
Texts == UNION {[1..n -> Chars] : n \in 1..MaxTextLen}

\* str.lstrip, str.rstrip, str.strip
RECURSIVE lstrip(_)
lstrip(content) ==
    IF content /= << >> /\ Head(content) = " " THEN lstrip(Tail(content))
    ELSE content

RECURSIVE rstrip(_)
rstrip(content) ==
    IF content /= << >> /\ content[Len(content)] = " "
    THEN rstrip(SubSeq(content, 1, Len(content) - 1))
    ELSE content

strip(content) == lstrip(rstrip(content))

\* re.sub(r'\s+', ' ', content)
RECURSIVE normalize_whitespace(_)
normalize_whitespace(content) ==
    IF Len(content) < 2 THEN content
    ELSE IF content[1] = " " /\ content[2] = " "
    THEN normalize_whitespace(Tail(content))
    ELSE <<Head(content)>> \o normalize_whitespace(Tail(content))

\* re.sub(r' +([,.;:!?])', r'\1', content)
RECURSIVE no_space_before_punctuation(_)
no_space_before_punctuation(content) ==
    IF content = << >> THEN content
    ELSE IF /\ Head(content) = " "
            /\ lstrip(content) /= << >>
            /\ Head(lstrip(content)) = ","
    THEN no_space_before_punctuation(lstrip(content))
    ELSE <<Head(content)>> \o no_space_before_punctuation(Tail(content))

\* re.sub(r'([,.;:!?])([A-Za-z])', r'\1 \2', content)
RECURSIVE space_after_punctuation(_)
space_after_punctuation(content) ==
    IF Len(content) < 2 THEN content
    ELSE IF content[1] = "," /\ content[2] = "a"
    THEN <<",", " ", "a">> \o space_after_punctuation(Tail(Tail(content)))
    ELSE <<Head(content)>> \o space_after_punctuation(Tail(content))

\* hashing.py 62-89; after the whitespace is normalized no line break is
\* left, so the text is one line
normalize_for_structural_hash(content) ==
    strip(space_after_punctuation(no_space_before_punctuation(
              rstrip(normalize_whitespace(content)))))

\* mutant: the fingerprint form is made from the text as it is
normalize_for_fingerprint_hash_raw(content) ==
    strip(normalize_whitespace(SelectSeq(content, LAMBDA ch : ch /= "D")))

\* hashing.py 91-145: the structural form without the dates
normalize_for_fingerprint_hash(content) ==
    strip(normalize_whitespace(
              SelectSeq(normalize_for_structural_hash(content),
                        LAMBDA ch : ch /= "D")))

\* hashing.py 24-60: "" for no content, else the digest of the processed
\* text; two digests are equal exactly when the processed texts are
generate_hash(content, hash_type) ==
    IF content = << >> THEN NoFile
    ELSE IF hash_type = "content" THEN File(strip(content))
    ELSE IF hash_type = "structural"
    THEN File(normalize_for_structural_hash(content))
    ELSE File(normalize_for_fingerprint_hash(content))

\* hashing.py 194-208, for a text
generate_text_hashes(content) ==
    [hash_type \in HashTypes |-> generate_hash(content, hash_type)]

\* ------------------------------------------------------------- prompts
\* f"{doc_id}_comparison.txt": a file name is the sequence of its parts
comparison(doc_id) == <<doc_id, "_comparison.txt">>

\* the prompt files a store may hold, and what one may hold
PromptFiles ==
    {<<"prompt.txt">>, comparison("default")} \cup {comparison(d) : d \in Docs}
Templates == {NoFile, File(""), File("x"), File("y")}
Backends == {"LocalStorage", "CloudStorage"}

\* storage.py 474 (cloud) and 995-996 (local): the path load_prompt reads
prompt_path(backend, prompt_name) ==
    IF backend = "LocalStorage" THEN <<"prompt.txt">> ELSE prompt_name

\* storage.py 464-475, 985-997: the path read and its content, or None
load_prompt(backend, files, prompt_name) ==
    LET path == prompt_path(backend, prompt_name)
    IN  [path |-> path, content |-> files[path]]

\* generate_diffs.py 342-372
get_fallback_prompt == "built-in"

\* generate_diffs.py 314-339: the template, the branch that returned it and
\* the file it was read from
load_diff_prompt(backend, files, doc_id) ==
    LET doc_specific_prompt == load_prompt(backend, files, comparison(doc_id))
        default_prompt == load_prompt(backend, files, comparison("default"))
    IN  IF Truthy(doc_specific_prompt.content)
        THEN [prompt |-> doc_specific_prompt.content[1],
              using |-> "document-specific",
              path |-> File(doc_specific_prompt.path)]
        ELSE IF Truthy(default_prompt.content)
        THEN [prompt |-> default_prompt.content[1],
              using |-> "default",
              path |-> File(default_prompt.path)]
        ELSE [prompt |-> get_fallback_prompt, using |-> "built-in",
              path |-> NoFile]

\* ------------------------------------------------------------- process_document_diff
\* the DiffResult model of generate_diffs.py 28-39
DiffResult(success, diff_generated, timestamp, previous_timestamp, current_timestamp, error_message) ==
    [success |-> success, diff_generated |-> diff_generated,
     timestamp |-> timestamp,
     previous_snapshot_timestamp |-> previous_timestamp,
     current_snapshot_timestamp |-> current_timestamp,
     error_message |-> error_message]

\* mutant: too little history is reported as a failure
too_few_snapshots_is_error(snapshots) ==
    DiffResult(FALSE, FALSE, NoFile, NoFile, NoFile,
               "Need at least 2 snapshots for diff")

\* lines 177-185: fewer than two snapshots, diff not needed
too_few_snapshots(snapshots) ==
    DiffResult(TRUE, FALSE, NoFile, NoFile, NoFile,
               "Need at least 2 snapshots for diff")

\* mutant: the two entries are taken from the other end of the list
select_snapshots_oldest(snapshots) ==
    [current_timestamp |-> snapshots[Len(snapshots)],
     previous_timestamp |-> snapshots[Len(snapshots) - 1]]

\* lines 187-189: the two most recent snapshots
select_snapshots(snapshots) ==
    [current_timestamp |-> snapshots[1], previous_timestamp |-> snapshots[2]]

\* mutant: the latest diff is never consulted
diff_already_exists_never(st, d, force_regenerate, previous_timestamp, current_timestamp) ==
    FALSE

\* mutant: the latest diff is consulted under force as well
diff_already_exists_even_forced(st, d, force_regenerate, previous_timestamp, current_timestamp) ==
    LET existing_diff == get_latest_diff(st, d)
    IN  /\ existing_diff /= NoFile
        /\ existing_diff[1].metadata.current_snapshot_timestamp
               = current_timestamp
        /\ existing_diff[1].metadata.previous_snapshot_timestamp
               = previous_timestamp

\* lines 191-196: unless forced, the latest diff is for this very pair
diff_already_exists(st, d, force_regenerate, previous_timestamp, current_timestamp) ==
    /\ ~force_regenerate
    /\ LET existing_diff == get_latest_diff(st, d)
       IN  /\ existing_diff /= NoFile
           /\ existing_diff[1].metadata.current_snapshot_timestamp
                  = current_timestamp
           /\ existing_diff[1].metadata.previous_snapshot_timestamp
                  = previous_timestamp

\* lines 174-301.  diff_content is what llm_client.compare_documents answers
\* if it is called, rf the downloads that return None, now the day.  The
\* outcome is the store, the DiffResult and the request sent to the LLM
\* (<< >> when compare_documents is not called).
\* mutant: only a null answer counts as a failure of the LLM
llm_failed_only_none(diff_content) ==
    diff_content = NoFile

\* generate_diffs.py 266: `if not diff_content`, for what compare_documents
\* returned: None when the LLM gave no choices or when anything raised inside
\* the client (llm_client.py 90-99 returns None from its own except), or an
\* empty string
llm_failed(diff_content) ==
    ~Truthy(diff_content)

process_document_diff(st, d, force_regenerate, diff_content, rf, now) ==
    LET snapshots == get_document_snapshots(st, d)
        done(st2, request, r) == [st |-> st2, request |-> request, result |-> r]
    IN  IF Len(snapshots) < 2
        THEN done(st, NoFile, too_few_snapshots(snapshots))
        ELSE
        LET sel == select_snapshots(snapshots)
            current_timestamp == sel.current_timestamp
            previous_timestamp == sel.previous_timestamp
            previous_content ==
                download_dated(st.snapshots, d, "content_txt",
                               previous_timestamp, "previous_content" \notin rf)
            current_content ==
                download_dated(st.snapshots, d, "content_txt",
                               current_timestamp, "current_content" \notin rf)
            previous_metadata_str ==
                download_dated(st.snapshots, d, "metadata_json",
                               previous_timestamp, "previous_metadata" \notin rf)
            current_metadata_str ==
                download_dated(st.snapshots, d, "metadata_json",
                               current_timestamp, "current_metadata" \notin rf)
            request ==
                File([previous_content |-> previous_content[1],
                      current_content |-> current_content[1],
                      previous_timestamp |-> previous_timestamp,
                      current_timestamp |-> current_timestamp])
            diff_metadata ==
                [previous_snapshot_timestamp |-> previous_timestamp,
                 current_snapshot_timestamp |-> current_timestamp,
                 llm_model |-> "model",
                 generated_at |-> now]
            res(success, diff_generated, timestamp, error_message) ==
                DiffResult(success, diff_generated, timestamp,
                           File(previous_timestamp), File(current_timestamp),
                           error_message)
        IN  IF diff_already_exists(st, d, force_regenerate, previous_timestamp,
                                   current_timestamp)
            THEN done(st, NoFile,
                      res(TRUE, FALSE, NoFile,
                          "Diff already exists for these snapshots"))
            ELSE IF ~Truthy(previous_content) \/ ~Truthy(current_content)
            THEN done(st, NoFile,
                      DiffResult(FALSE, FALSE, NoFile, NoFile, NoFile,
                          "Could not load snapshot content for comparison"))
            ELSE IF /\ previous_metadata_str /= NoFile
                    /\ current_metadata_str /= NoFile
                    /\ ~should_generate_diff(previous_metadata_str[1],
                                             current_metadata_str[1])
            THEN done(st, NoFile,
                      res(TRUE, FALSE, NoFile,
                          "No meaningful content changes detected"))
            ELSE IF llm_failed(diff_content)
            THEN done(st, request,
                      res(FALSE, FALSE, NoFile,
                          "LLM failed to generate diff content"))
            ELSE done(store_diff(st, d, diff_content[1], diff_metadata, now),
                      request,
                      res(TRUE, TRUE, File(now), None))

\* fetch_docs.py 127-129 and 137-141: the counts of an ingest batch
fetch_summary(results) ==
    LET succeeded == {i \in 1..Len(results) : results[i].success}
    IN  [processed_count |-> Len(results),
         success_count |-> Cardinality(succeeded),
         error_count |-> Len(results) - Cardinality(succeeded)]

\* generate_diffs.py 111-114 and 122-127: the counts of a batch of results
batch_summary(results) ==
    LET succeeded == {i \in 1..Len(results) : results[i].success}
        generated == {i \in 1..Len(results) : results[i].diff_generated}
    IN  [processed_count |-> Len(results),
         success_count |-> Cardinality(succeeded),
         error_count |-> Len(results) - Cardinality(succeeded),
         diffs_generated |-> Cardinality(generated)]

\* ------------------------------------------------------------ batch requests
\* An entry of documents.json: the keys the endpoints read, None for a key
\* the entry does not have.
doc_entry(id, name, url) == [id |-> id, name |-> name, url |-> url]

\* the lists of entries documents.json is given: none, both documents in
\* either order, and lists with an entry that lacks a key
BothDocuments ==
    <<doc_entry("d1", "name", "url"), doc_entry("d2", "name", "url")>>

DocumentLists ==
    {<< >>,
     BothDocuments,
     <<doc_entry("d2", "name", "url"), doc_entry("d1", "name", "url")>>,
     <<doc_entry("d1", None, None), doc_entry(None, "name", "url"),
       doc_entry("d2", "name", "url")>>,
     <<doc_entry("d1", "name", "url"), doc_entry(None, None, "url"),
       doc_entry("d2", "name", "url")>>}

\* what load_config("documents.json") returns: None, or the "documents" list
Configs == {NoFile} \cup {File(l) : l \in DocumentLists}

\* request.document_ids as a set; None and [] are both the empty set, the
\* code tests it only by truth value (generate_diffs.py 90, fetch_docs.py 107)
DocumentIds == {{}, {"d1"}, {"d3"}}

\* the batch requests: every configuration unfiltered, and the complete one
\* under each filter
BatchRequests ==
    {[config |-> config, document_ids |-> {}] : config \in Configs} \cup
    {[config |-> File(BothDocuments), document_ids |-> ids] :
        ids \in DocumentIds}

\* request.documents of /fetch-docs: empty for None, else entries validated
\* by the Document model (id, name and url required, fetch_docs.py 24-30)
RequestDocuments ==
    {<< >>, <<doc_entry("d2", "name", "url")>>}

\* mutant: a filter that matches nothing is ignored
load_documents_ignoring_filter(request_documents, config, document_ids) ==
    LET documents == IF request_documents /= << >> THEN request_documents
                     ELSE IF config = NoFile THEN << >> ELSE config[1]
    IN  IF documents = << >>
        THEN [status_code |-> 400, detail |-> "No documents configured",
              documents |-> << >>]
        ELSE [status_code |-> 200, detail |-> None, documents |-> documents]

\* generate_diffs.py 74-101, fetch_docs.py 85-117: the documents a batch
\* processes, or the HTTPException raised before the loop
load_documents(request_documents, config, document_ids) ==
    LET err(status_code, detail) ==
            [status_code |-> status_code, detail |-> detail,
             documents |-> << >>]
        filtered(documents) ==
            IF document_ids /= {}
            THEN SelectSeq(documents, LAMBDA doc : doc.id \in document_ids)
            ELSE documents
        selected(documents) ==
            IF filtered(documents) = << >>
            THEN err(400, "No documents found for IDs")
            ELSE [status_code |-> 200, detail |-> None,
                  documents |-> filtered(documents)]
    IN  IF request_documents /= << >>
        THEN selected(request_documents)
        ELSE IF config = NoFile
        THEN err(500, "Could not load document configuration from storage")
        ELSE IF config[1] = << >>
        THEN err(400, "No documents configured in documents.json")
        ELSE selected(config[1])

\* doc_config.get("name", doc_id)
doc_name_of(doc_config) ==
    IF doc_config.name = None THEN doc_config.id ELSE doc_config.name

BatchDiffResult(document_id, r) ==
    [document_id |-> document_id, success |-> r.success,
     diff_generated |-> r.diff_generated, timestamp |-> r.timestamp,
     error_message |-> r.error_message]

\* generate_diffs.py 159-169 and the body from 171 on: one document of the
\* diff batch.  DiffResult declares document_name: str, so building the
\* result of an entry with neither id nor name raises a validation error,
\* outside the try block (raised).
process_document_diff_config(st, doc_config, force_regenerate, diff_content, now) ==
    IF doc_config.id = None
    THEN [st |-> st, request |-> NoFile,
          raised |-> doc_name_of(doc_config) = None,
          result |-> BatchDiffResult("unknown",
                        DiffResult(FALSE, FALSE, NoFile, NoFile, NoFile,
                                   "Missing document ID in configuration"))]
    ELSE LET r == process_document_diff(st, doc_config.id, force_regenerate,
                                        diff_content, {}, now)
         IN  [st |-> r.st, request |-> r.request, raised |-> FALSE,
              result |-> BatchDiffResult(doc_config.id, r.result)]

\* generate_diffs.py 104-109: the loop over the selected documents; an
\* exception that leaves process_document_diff ends the loop (132-136)
RECURSIVE process_document_diffs(_, _, _, _, _)
process_document_diffs(st, documents, force_regenerate, outs, now) ==
    IF documents = << >>
    THEN [st |-> st, results |-> << >>, answers |-> << >>, attempted |-> 0,
          raised |-> FALSE]
    ELSE LET doc_config == Head(documents)
             out == IF doc_config.id \in Docs THEN outs[doc_config.id]
                    ELSE NoFile
             r == process_document_diff_config(st, doc_config,
                                               force_regenerate, out, now)
             rest == process_document_diffs(r.st, Tail(documents),
                                            force_regenerate, outs, now)
         IN  IF r.raised
             THEN [st |-> st, results |-> << >>, answers |-> << >>,
                   attempted |-> 1, raised |-> TRUE]
             ELSE [st |-> rest.st,
                   results |-> <<r.result>> \o rest.results,
                   answers |-> <<[asked |-> r.request /= NoFile,
                                  answer |-> IF r.request /= NoFile
                                             THEN out ELSE NoFile,
                                  stored |-> r.st /= st]>>
                               \o rest.answers,
                   attempted |-> 1 + rest.attempted,
                   raised |-> rest.raised]

DocumentResult(document_id, success, changes_detected, snapshot_created, timestamp, error_message) ==
    [document_id |-> document_id, success |-> success,
     changes_detected |-> changes_detected,
     snapshot_created |-> snapshot_created, timestamp |-> timestamp,
     error_message |-> error_message]

\* fetch_docs.py 174-274: one document of the ingest batch; page_data is what
\* fetch_page returned.  DocumentResult declares document_name: str, as
\* DiffResult does.
process_document(fs, doc_config, page_data, now) ==
    LET doc_id == doc_config.id
        failed(document_id, error_message) ==
            [fs |-> fs, raised |-> FALSE,
             result |-> DocumentResult(document_id, FALSE, FALSE, FALSE,
                                       NoFile, error_message)]
    IN  IF doc_id = None \/ doc_config.url = None
        THEN [failed(IF doc_id = None THEN "unknown" ELSE doc_id,
                     "Missing document ID or URL in configuration")
                EXCEPT !.raised = doc_name_of(doc_config) = None]
        ELSE IF page_data = NoFile
        THEN failed(doc_id, "Failed to fetch document content")
        ELSE IF page_data[1] = ""
        THEN failed(doc_id, "Document content is empty after normalization")
        ELSE LET r == store_tos_document(fs, doc_id, page_data[1],
                                         create_metadata(page_data[1]), now,
                                         {}, {})
             IN  [fs |-> r.fs, raised |-> FALSE,
                  result |-> DocumentResult(doc_id, TRUE,
                                            r.result.changes_detected,
                                            r.result.snapshot_created,
                                            r.result.timestamp, None)]

\* fetch_docs.py 119-125: the loop over the selected documents
RECURSIVE process_documents(_, _, _, _)
process_documents(fs, documents, pages, now) ==
    IF documents = << >>
    THEN [fs |-> fs, results |-> << >>, attempted |-> 0, raised |-> FALSE]
    ELSE LET doc_config == Head(documents)
             page_data == IF doc_config.id \in Docs THEN pages[doc_config.id]
                          ELSE NoFile
             r == process_document(fs, doc_config, page_data, now)
             rest == process_documents(r.fs, Tail(documents), pages, now)
         IN  IF r.raised
             THEN [fs |-> fs, results |-> << >>, attempted |-> 1,
                   raised |-> TRUE]
             ELSE [fs |-> rest.fs,
                   results |-> <<r.result>> \o rest.results,
                   attempted |-> 1 + rest.attempted,
                   raised |-> rest.raised]

\* ------------------------------------------------------------- state machine
\* tos     the files under tos/<doc_id>/ of every document
\* today   the calendar day datetime.utcnow() reports
\* call    per document, the arguments of its most recent store_tos_document
\* result  per document, what that call returned
\* hist    per document, what the most recent changing ingest saw and did
\* ncalls  the number of calls made so far
\* store   the files under snapshots/, latest/ and diffs/
\* run     per document, the arguments and the outcome of its most recent
\*         process_document_diff
\* llm     per document, the requests compare_documents has received
\* nruns   the number of process_document_diff runs and of batch requests
\*         made so far
\* batch   the most recent batch request: its endpoint and arguments, the
\*         documents it selected, how many of them the loop reached, the
\*         per-document results in order, whether the LLM was asked about
\*         each, what it answered and whether the document's files changed,
\*         the response, and whether any file changed
NoCall == [called |-> FALSE, content |-> "", metadata |-> [structural |-> None],
           timestamp |-> 0, rf |-> {}]
NoResult == [changes_detected |-> FALSE, snapshot_created |-> FALSE,
             timestamp |-> NoFile]
NoHist == [lastBefore |-> NoFile, lastChange |-> NoFile, changeDays |-> {}]
NoRun == [called |-> FALSE, force |-> FALSE, rf |-> {}, request |-> NoFile,
          result |-> DiffResult(FALSE, FALSE, NoFile, NoFile, NoFile, None)]
NoRequest == [documents |-> << >>, config |-> NoFile, document_ids |-> {}]
NoBatch == [kind |-> "none", request |-> NoRequest, status_code |-> 0,
            selected |-> << >>, attempted |-> 0, results |-> << >>,
            answers |-> << >>, response |-> NoFile, wrote |-> FALSE]
\* fetch   the fetch_page call of the process_document in progress: where it
\*         stands, the document, the loop variable, how each request made so
\*         far ended, the seconds slept after each, what fetch_page returned
\*         and what process_document returned
NoFetch == [pc |-> "idle", doc_id |-> "d1", attempt |-> 0, outcomes |-> << >>,
            waits |-> << >>, page_data |-> NoFile,
            result |-> DocumentResult("d1", FALSE, FALSE, FALSE, NoFile, None)]
\* proc    per request in progress, the store_tos_document call it is in:
\*         the next file operation, the arguments, the local variables, the
\*         document's files when the call began, the documents of the calls
\*         that were in progress while it was, and the operations on the
\*         pointer files it has done so far
Procs == {1, 2}
NoProc == [pc |-> "idle", doc_id |-> "d1", content |-> "", timestamp |-> 0,
           last_date_str |-> NoFile, last_content |-> NoFile,
           changes_detected |-> TRUE, pre |-> EmptyDoc, met |-> {},
           ops |-> << >>]

\* a hash comparison: the two dictionaries and, once compared, the answers
NoCmp == [pc |-> "idle", old_content |-> << >>, new_content |-> << >>,
          old_hashes |-> << >>, new_hashes |-> << >>,
          changes |-> << >>, create_snapshot |-> TRUE,
          generate_diff |-> TRUE]

\* a prompt selection: the store, the document and, once loaded, the answer
NoLoaded == [prompt |-> "", using |-> "none", path |-> NoFile]
NoPrm == [pc |-> "idle", backend |-> "LocalStorage",
          files |-> [f \in PromptFiles |-> NoFile], doc_id |-> "d1",
          loaded |-> NoLoaded]

Init ==
    /\ tos = [d \in Docs |-> EmptyDoc]
    /\ today = 1
    /\ call = [d \in Docs |-> NoCall]
    /\ result = [d \in Docs |-> NoResult]
    /\ hist = [d \in Docs |-> NoHist]
    /\ ncalls = 0
    /\ store = EmptyStore
    /\ run = [d \in Docs |-> NoRun]
    /\ llm = [d \in Docs |-> << >>]
    /\ nruns = 0
    /\ batch = NoBatch
    /\ fetch = NoFetch
    /\ proc = [p \in Procs |-> NoProc]
    /\ cmp = NoCmp
    /\ prm = NoPrm

\* datetime.utcnow() moves on to the next calendar day
Tick ==
    /\ today < MaxDay
    /\ today' = today + 1
    /\ UNCHANGED <<tos, call, result, hist, ncalls, store, run, llm, nruns, aux>>

\* one call store_tos_document(d, content, metadata) on day today, the reads
\* named in rf failing (download_file returning None) and the writes named
\* in wf failing (upload_file or delete_file returning False)
IngestWithFaults(d, content, metadata, rf, wf) ==
    LET r == store_tos_document(tos, d, content, metadata, today, rf, wf)
    IN  /\ ncalls < MaxIngests
        /\ ncalls' = ncalls + 1
        /\ tos' = r.fs
        /\ result' = [result EXCEPT ![d] = r.result]
        /\ call' = [call EXCEPT
                      ![d] = [called |-> TRUE, content |-> content,
                              metadata |-> metadata, timestamp |-> today,
                              rf |-> rf]]
        /\ hist' = IF r.result.changes_detected
                   THEN [hist EXCEPT
                           ![d] = [lastBefore |-> tos[d].last_txt,
                                   lastChange |-> File(today),
                                   changeDays |-> @.changeDays \cup {today}]]
                   ELSE hist
        /\ UNCHANGED <<today, store, run, llm, nruns, aux>>

\* the same call when every write succeeds
IngestWith(d, content, metadata, rf) ==
    IngestWithFaults(d, content, metadata, rf, {})

Ingest(d, content, metadata) == IngestWith(d, content, metadata, {})

Next ==
    \/ Tick
    \/ \E d \in Docs, c \in Contents, m \in Metadatas : Ingest(d, c, m)

Spec == Init /\ [][Next]_vars

\* The same store when a read may fail: any one download_file of a call may
\* return None (missing file or I/O error, storage.py 671-682).
ReadFaults == {{}} \cup {{s} : s \in ReadSteps}
FaultDocs == {"d1"}
FaultContents == {"a"}

FaultyIngest(d, content, metadata, rf) == IngestWith(d, content, metadata, rf)

FaultNext ==
    \/ Tick
    \/ \E d \in FaultDocs, c \in FaultContents, m \in Metadatas,
          rf \in ReadFaults :
          FaultyIngest(d, c, m, rf)

FaultSpec == Init /\ [][FaultNext]_vars

\* The same store when a write may fail: any one upload_file or delete_file
\* of a call may return False leaving the file as it was (storage.py 656-659);
\* store_tos_document does not look at what they return.
WriteFaults == {{}} \cup {{s} : s \in WriteSteps}

WriteFaultyIngest(d, content, metadata, wf) ==
    IngestWithFaults(d, content, metadata, {}, wf)

WriteFaultNext ==
    \/ Tick
    \/ \E d \in FaultDocs, c \in FaultContents, m \in Metadatas,
          wf \in WriteFaults :
          WriteFaultyIngest(d, c, m, wf)

WriteFaultSpec == Init /\ [][WriteFaultNext]_vars

\* ------------------------------------------------------------- diff lineage
\* one call store_document_snapshot(d, content, metadata) on day today, the
\* metadata being the one create_metadata makes for the text
Snapshot(d, content) ==
    /\ ncalls < MaxIngests
    /\ ncalls' = ncalls + 1
    /\ store' = store_document_snapshot(store, d, content,
                                        create_metadata(content), today)
    /\ UNCHANGED <<tos, call, result, hist, today, run, llm, nruns, aux>>

\* one call process_document_diff for d: the LLM, if asked, answers
\* diff_content, and the downloads named in rf return None
GenerateDiffWith(d, force, diff_content, rf) ==
    LET r == process_document_diff(store, d, force, diff_content, rf, today)
    IN  /\ nruns < MaxRuns
        /\ nruns' = nruns + 1
        /\ store' = r.st
        /\ run' = [run EXCEPT
                     ![d] = [called |-> TRUE, force |-> force, rf |-> rf,
                             request |-> r.request, result |-> r.result]]
        /\ llm' = IF r.request /= NoFile
                  THEN [llm EXCEPT
                          ![d] = Append(@,
                              [previous_timestamp |->
                                   r.request[1].previous_timestamp,
                               current_timestamp |->
                                   r.request[1].current_timestamp,
                               force |-> force,
                               answered |-> r.result.success])]
                  ELSE llm
        /\ UNCHANGED <<tos, call, result, hist, today, ncalls, aux>>

GenerateDiff(d, force, diff_content) ==
    GenerateDiffWith(d, force, diff_content, {})

\* snapshots arriving and diff runs, for one document
DiffDocs == {"d1"}

DiffNext ==
    \/ Tick
    \/ \E d \in DiffDocs, c \in DiffContents : Snapshot(d, c)
    \/ \E d \in DiffDocs, force \in BOOLEAN, out \in LlmOutputs :
          GenerateDiff(d, force, out)

DiffSpec == Init /\ [][DiffNext]_vars

\* the same with three texts no two of which share a fingerprint
RerunContents == {"a", "c", "d"}

RerunNext ==
    \/ Tick
    \/ \E d \in DiffDocs, c \in RerunContents : Snapshot(d, c)
    \/ \E d \in DiffDocs, force \in BOOLEAN, out \in LlmOutputs :
          GenerateDiff(d, force, out)

RerunSpec == Init /\ [][RerunNext]_vars

\* The diff runs when a download of a snapshot file may fail: any one of
\* the four loads of a run may return None (missing file or I/O error,
\* storage.py 671-682).
LoadFaults == {{}} \cup {{s} : s \in LoadSteps}

FaultyGenerateDiff(d, force, diff_content, rf) ==
    GenerateDiffWith(d, force, diff_content, rf)

DiffFaultNext ==
    \/ Tick
    \/ \E d \in DiffDocs, c \in DiffContents : Snapshot(d, c)
    \/ \E d \in DiffDocs, force \in BOOLEAN, out \in LlmOutputs,
          rf \in LoadFaults :
          FaultyGenerateDiff(d, force, out, rf)

DiffFaultSpec == Init /\ [][DiffFaultNext]_vars

\* the two endpoints as deployed: /fetch-docs stores through
\* store_tos_document (fetch_docs.py 223-241), /generate-diffs runs
\* process_document_diff; nothing calls store_document_snapshot
PipelineIngest(d, content) ==
    IngestWith(d, content, create_metadata(content), {})

PipelineNext ==
    \/ Tick
    \/ \E d \in DiffDocs, c \in DiffContents : PipelineIngest(d, c)
    \/ \E d \in DiffDocs, force \in BOOLEAN, out \in LlmOutputs :
          GenerateDiff(d, force, out)

PipelineSpec == Init /\ [][PipelineNext]_vars

\* ------------------------------------------------------------- the batches
\* POST /generate-diffs (generate_diffs.py 53-136) on day today: config is
\* what documents.json holds, outs what the LLM answers for each document
generate_diffs(config, document_ids, force_regenerate, outs) ==
    LET sel == load_documents(<< >>, config, document_ids)
        loop == process_document_diffs(store, sel.documents, force_regenerate,
                                       outs, today)
    IN  /\ nruns < MaxBatches
        /\ nruns' = nruns + 1
        /\ store' = loop.st
        /\ batch' = [kind |-> "generate_diffs",
                     request |-> [documents |-> << >>, config |-> config,
                                  document_ids |-> document_ids],
                     status_code |-> IF loop.raised THEN 500
                                     ELSE sel.status_code,
                     selected |-> sel.documents,
                     attempted |-> loop.attempted,
                     results |-> loop.results,
                     answers |-> loop.answers,
                     response |-> IF sel.status_code = 200 /\ ~loop.raised
                                  THEN File(batch_summary(loop.results))
                                  ELSE NoFile,
                     wrote |-> loop.st /= store]
        /\ UNCHANGED <<tos, today, call, result, hist, ncalls, run, llm, fetch,
                       proc, pure>>

\* POST /fetch-docs (fetch_docs.py 64-150) on day today: pages is what
\* fetch_page returns for each document
fetch_documents(request_documents, config, document_ids, pages) ==
    LET sel == load_documents(request_documents, config, document_ids)
        loop == process_documents(tos, sel.documents, pages, today)
    IN  /\ nruns < MaxBatches
        /\ nruns' = nruns + 1
        /\ tos' = loop.fs
        /\ batch' = [kind |-> "fetch_documents",
                     request |-> [documents |-> request_documents,
                                  config |-> config,
                                  document_ids |-> document_ids],
                     status_code |-> IF loop.raised THEN 500
                                     ELSE sel.status_code,
                     selected |-> sel.documents,
                     attempted |-> loop.attempted,
                     results |-> loop.results,
                     answers |-> << >>,
                     response |-> IF sel.status_code = 200 /\ ~loop.raised
                                  THEN File(fetch_summary(loop.results))
                                  ELSE NoFile,
                     wrote |-> loop.fs /= tos]
        /\ UNCHANGED <<today, call, result, hist, ncalls, store, run, llm,
                       fetch, proc, pure>>

BatchContents == {"a", "c"}

\* the documents a diff batch can ask the LLM about: those selected that
\* have two snapshots
Comparable(config, document_ids) ==
    LET documents == load_documents(<< >>, config, document_ids).documents
    IN  {d \in Docs : /\ \E i \in 1..Len(documents) : documents[i].id = d
                      /\ Len(get_document_snapshots(store, d)) >= 2}

\* one LLM answer for every such document (None for the others, about which
\* it is never asked)
LlmAnswers(config, document_ids) ==
    {[d \in Docs |-> IF d \in DOMAIN f THEN f[d] ELSE NoFile] :
        f \in [Comparable(config, document_ids) -> LlmOutputs]}

\* snapshots of one document arriving, and diff batches over both
DiffBatchNext ==
    \/ Tick
    \/ \E d \in DiffDocs, c \in BatchContents : Snapshot(d, c)
    \/ \E request \in BatchRequests, force \in BOOLEAN :
          \E outs \in LlmAnswers(request.config, request.document_ids) :
             generate_diffs(request.config, request.document_ids, force,
                            outs)

DiffBatchSpec == Init /\ [][DiffBatchNext]_vars

\* both endpoints against one store: the LLM always answers, and every page
\* is fetched with the same text
Answered == [d \in Docs |-> File("summary")]
Fetched == [d \in Docs |-> File("a")]

BatchNext ==
    \/ Tick
    \/ \E d \in DiffDocs, c \in BatchContents : Snapshot(d, c)
    \/ \E request \in BatchRequests, force \in BOOLEAN :
          generate_diffs(request.config, request.document_ids, force,
                         Answered)
    \/ \E request_documents \in RequestDocuments, request \in BatchRequests :
          fetch_documents(request_documents, request.config,
                          request.document_ids, Fetched)

BatchSpec == Init /\ [][BatchNext]_vars

\* ---------------------------------------------- store_tos_document, by steps
\* Every upload_file, download_file and delete_file awaits asyncio.to_thread
\* (storage.py 654, 677, 765), so each is a step at which another request's
\* call may run.

\* mutant: every document's files are kept under one key
tos_key_shared(doc_id) == "d1"

\* storage.py 1023-1062: the files of a call are those under tos/{doc_id}/
tos_key(doc_id) == doc_id

\* mutant: last is overwritten before it is copied to prev
pointer_step_last_first(fs, c) ==
    LET d == tos_key(c.doc_id)
        to(pc, op) == [c EXCEPT !.pc = pc, !.ops = Append(@, op)]
    IN  IF c.pc = "download_last_again"
        THEN [fs |-> fs,
              c |-> [to("upload_last", "download_last")
                       EXCEPT !.last_date_str =
                                  download_file(fs, d, "last_txt", TRUE)]]
        ELSE IF c.pc = "upload_last"
        THEN [fs |-> upload_file(fs, d, "last_txt", c.timestamp, TRUE),
              c |-> to(IF c.last_date_str /= NoFile THEN "upload_prev"
                       ELSE "upload_dated_txt", "upload_last")]
        ELSE [fs |-> upload_file(fs, d, "prev_txt", c.last_date_str[1], TRUE),
              c |-> to("upload_dated_txt", "upload_prev")]

\* storage.py 1066-1077: the three operations on the pointer files of a
\* changing ingest: last.txt is read again, prev.txt is written with what was
\* read if anything was, then last.txt is written with the timestamp
pointer_step(fs, c) ==
    LET d == tos_key(c.doc_id)
        to(pc, op) == [c EXCEPT !.pc = pc, !.ops = Append(@, op)]
    IN  IF c.pc = "download_last_again"
        THEN LET last_date_str == download_file(fs, d, "last_txt", TRUE)
             IN  [fs |-> fs,
                  c |-> [to(IF last_date_str /= NoFile THEN "upload_prev"
                            ELSE "upload_last", "download_last")
                           EXCEPT !.last_date_str = last_date_str]]
        ELSE IF c.pc = "upload_prev"
        THEN [fs |-> upload_file(fs, d, "prev_txt", c.last_date_str[1], TRUE),
              c |-> to("upload_last", "upload_prev")]
        ELSE [fs |-> upload_file(fs, d, "last_txt", c.timestamp, TRUE),
              c |-> to("upload_dated_txt", "upload_last")]

PointerSteps == {"download_last_again", "upload_prev", "upload_last"}

\* storage.py 1023-1093: the file operation at c.pc, on the files fs
store_tos_document_step(fs, c) ==
    LET d == tos_key(c.doc_id)
        metadata == create_metadata(c.content)
        at(pc) == [c EXCEPT !.pc = pc]
    IN  IF c.pc = "upload_current_txt"
        THEN [fs |-> upload_file(fs, d, "current_txt", c.content, TRUE),
              c |-> at("upload_current_json")]
        ELSE IF c.pc = "upload_current_json"
        THEN [fs |-> upload_file(fs, d, "current_json", metadata, TRUE),
              c |-> at("download_last")]
        ELSE IF c.pc = "download_last"
        THEN LET last_date_str == download_file(fs, d, "last_txt", TRUE)
             IN  [fs |-> fs,
                  c |-> IF last_date_str /= NoFile
                        THEN [c EXCEPT !.pc = "download_last_content",
                                       !.last_date_str = last_date_str,
                                       !.ops = Append(@, "download_last")]
                        ELSE [c EXCEPT !.pc = "download_last_again",
                                       !.ops = Append(@, "download_last")]]
        ELSE IF c.pc = "download_last_content"
        THEN [fs |-> fs,
              c |-> [c EXCEPT !.pc = "download_last_metadata",
                              !.last_content =
                                  download_dated(fs, d, "dated_txt",
                                                 c.last_date_str[1], TRUE)]]
        ELSE IF c.pc = "download_last_metadata"
        THEN LET last_metadata_str ==
                     download_dated(fs, d, "dated_json", c.last_date_str[1],
                                    TRUE)
                 changes_detected ==
                     IF Truthy(c.last_content) /\ last_metadata_str /= NoFile
                     THEN ~(get_structural(last_metadata_str[1])
                                = get_structural(metadata))
                     ELSE TRUE
             IN  [fs |-> fs,
                  c |-> [c EXCEPT !.pc = IF changes_detected
                                         THEN "download_last_again"
                                         ELSE "delete_changed",
                                  !.changes_detected = changes_detected,
                                  !.last_date_str = NoFile,
                                  !.last_content = NoFile]]
        ELSE IF c.pc \in PointerSteps
        THEN pointer_step(fs, c)
        ELSE IF c.pc = "upload_dated_txt"
        THEN [fs |-> upload_dated(fs, d, "dated_txt", c.timestamp, c.content,
                                  TRUE),
              c |-> at("upload_dated_json")]
        ELSE IF c.pc = "upload_dated_json"
        THEN [fs |-> upload_dated(fs, d, "dated_json", c.timestamp, metadata,
                                  TRUE),
              c |-> at("upload_changed")]
        ELSE IF c.pc = "upload_changed"
        THEN [fs |-> upload_file(fs, d, "changed", c.timestamp, TRUE),
              c |-> [c EXCEPT !.pc = "return", !.last_date_str = NoFile]]
        ELSE [fs |-> delete_file(fs, d, "changed", TRUE),
              c |-> at("return")]

Running(c) == c.pc \notin {"idle", "return"}

\* mutant: no call is ever seen to be in progress
InProgress_never(c) == FALSE

\* the call has begun and has file operations left to do
InProgress(c) == Running(c)

\* request p enters store_tos_document(d, content, metadata) on day today
StoreCall(p, d, content) ==
    LET meets == {q \in Procs \ {p} : InProgress(proc[q])}
    IN  /\ proc[p].pc = "idle"
        /\ ncalls < MaxCalls
        /\ ncalls' = ncalls + 1
        /\ proc' = [q \in Procs |->
                      IF q = p
                      THEN [NoProc EXCEPT !.pc = "upload_current_txt",
                                          !.doc_id = d, !.content = content,
                                          !.timestamp = today,
                                          !.pre = tos[d],
                                          !.met = {proc[m].doc_id :
                                                     m \in meets}]
                      ELSE IF q \in meets
                      THEN [proc[q] EXCEPT !.met = @ \cup {d}]
                      ELSE proc[q]]
        /\ UNCHANGED <<tos, today, call, result, hist, store, run, llm, nruns,
                       batch, fetch, pure>>

\* the call of request p does its next file operation
StoreStep(p) ==
    LET r == store_tos_document_step(tos, proc[p])
    IN  /\ Running(proc[p])
        /\ tos' = r.fs
        /\ proc' = [proc EXCEPT ![p] = r.c]
        /\ UNCHANGED <<today, call, result, hist, ncalls, store, run, llm,
                       nruns, batch, fetch, pure>>

\* storage.py 1095-1099: the call of request p returns its result
StoreReturn(p) ==
    /\ proc[p].pc = "return"
    /\ proc' = [proc EXCEPT ![p] = NoProc]
    /\ UNCHANGED <<tos, today, call, result, hist, ncalls, store, run, llm,
                   nruns, batch, fetch, pure>>

\* a call takes a fraction of a second: the day changes between calls
StepTick ==
    /\ \A p \in Procs : proc[p].pc = "idle"
    /\ Tick

StepNext ==
    \/ StepTick
    \/ \E p \in Procs, d \in Docs, c \in Contents : StoreCall(p, d, c)
    \/ \E p \in Procs : StoreStep(p)
    \/ \E p \in Procs : StoreReturn(p)

StepSpec == Init /\ [][StepNext]_vars


\* ------------------------------------------------------------ fetching a page
\* HTMLParser(timeout=30, max_retries=3), html_parser.py 326
max_retries == 3

\* how one pass of the loop body of fetch_page can end (html_parser.py 68-116):
\* with the parsed page, with requests.exceptions.RequestException from
\* session.get or raise_for_status, or with any other exception
Outcomes == {"page", "RequestException", "Exception"}

\* mutant: every exception is retried after the backoff wait
after_attempt_retrying_all(attempt, outcome) ==
    IF outcome = "page" THEN [pc |-> "return", wait |-> << >>]
    ELSE IF attempt < max_retries - 1
    THEN [pc |-> "sleep", wait |-> <<2 ^ attempt>>]
    ELSE [pc |-> "return", wait |-> << >>]

\* html_parser.py 101-116: where the loop goes after pass `attempt` ended with
\* outcome, and the seconds it is about to sleep
after_attempt(attempt, outcome) ==
    IF outcome = "page" THEN [pc |-> "return", wait |-> << >>]
    ELSE IF outcome = "RequestException"
    THEN IF attempt < max_retries - 1
         THEN [pc |-> "sleep", wait |-> <<2 ^ attempt>>]
         ELSE [pc |-> "return", wait |-> << >>]
    ELSE [pc |-> "return", wait |-> << >>]

\* fetch_docs.py 194-196: process_document for document d calls fetch_page
fetch_page(d) ==
    /\ fetch.pc \in {"idle", "done"}
    /\ ncalls < MaxIngests
    /\ ncalls' = ncalls + 1
    /\ fetch' = [NoFetch EXCEPT !.pc = "request", !.doc_id = d]
    /\ UNCHANGED <<tos, today, call, result, hist, store, run, llm, nruns,
                   batch, proc, pure>>

\* html_parser.py 68-116: one pass of `for attempt in range(max_retries)`,
\* the request answered with content when it succeeds
fetch_page_attempt(outcome, content) ==
    LET next == after_attempt(fetch.attempt, outcome)
    IN  /\ fetch.pc = "request"
        /\ fetch.attempt < max_retries
        /\ fetch' = [fetch EXCEPT
                       !.outcomes = Append(@, outcome),
                       !.waits = @ \o next.wait,
                       !.pc = next.pc,
                       !.page_data = IF outcome = "page" THEN File(content)
                                     ELSE NoFile]
        /\ UNCHANGED <<tos, today, call, result, hist, ncalls, store, run, llm,
                       nruns, batch, proc, pure>>

\* html_parser.py 108: asyncio.sleep(wait_time) returns and the loop goes on
fetch_page_sleep ==
    /\ fetch.pc = "sleep"
    /\ fetch' = [fetch EXCEPT !.pc = "request", !.attempt = @ + 1]
    /\ UNCHANGED <<tos, today, call, result, hist, ncalls, store, run, llm,
                   nruns, batch, proc, pure>>

\* fetch_docs.py 196-274: fetch_page has returned and process_document goes
\* on with the page, or reports the failure
process_document_fetched ==
    LET r == process_document(tos, doc_entry(fetch.doc_id, "name", "url"),
                              fetch.page_data, today)
    IN  /\ fetch.pc = "return"
        /\ tos' = r.fs
        /\ fetch' = [fetch EXCEPT !.pc = "done", !.result = r.result]
        /\ UNCHANGED <<today, call, result, hist, ncalls, store, run, llm,
                       nruns, batch, proc, pure>>

FetchStep ==
    \/ \E outcome \in Outcomes, c \in FaultContents :
          fetch_page_attempt(outcome, c)
    \/ fetch_page_sleep
    \/ process_document_fetched

FetchNext ==
    \/ Tick
    \/ \E d \in Docs : fetch_page(d)
    \/ FetchStep

\* a request returns or times out (timeout=30), a sleep ends, and the
\* coroutine then runs on: a started call keeps taking its steps
FetchSpec == Init /\ [][FetchNext]_vars /\ WF_vars(FetchStep)



\* ------------------------------------------------------------ one document
\* the entries process_document may be given for d1: complete, without url,
\* without id, without id and name
DocConfigs ==
    {doc_entry("d1", "name", "url"), doc_entry("d1", None, None),
     doc_entry(None, "name", "url"), doc_entry(None, None, "url")}

\* what fetch_page returns, as normalized: None, a page that is empty after
\* normalization, or a text
Pages == {NoFile, File("")} \cup {File(c) : c \in BatchContents}

\* fetch_docs.py 153-274: one call process_document(doc_config, ...) on day
\* today whose fetch_page returns page_data; an exception that leaves
\* process_document ends the request (fetch_docs.py 148-150)
process_document_call(doc_config, page_data) ==
    LET r == process_document(tos, doc_config, page_data, today)
    IN  /\ ncalls < MaxIngests
        /\ ncalls' = ncalls + 1
        /\ tos' = r.fs
        /\ fetch' = [NoFetch EXCEPT
                       !.pc = IF r.raised THEN "raised" ELSE "done",
                       !.doc_id = doc_config.id,
                       !.page_data = page_data,
                       !.result = r.result]
        /\ UNCHANGED <<today, call, result, hist, store, run, llm, nruns,
                       batch, proc, pure>>

DocumentNext ==
    \/ Tick
    \/ \E doc_config \in DocConfigs, page_data \in Pages :
          process_document_call(doc_config, page_data)

DocumentSpec == Init /\ [][DocumentNext]_vars

\* ------------------------------------------------------------ on-demand analysis
\* the texts ingested here: "a " is "a" followed by white space
AnalyzeContents == {"a", "a ", "b"}

\* str.strip() on these texts
content_strip(content) == IF content = "a " THEN "a" ELSE content

\* the metadata of these texts
AnalyzeMetadatas == [structural : {"h1", "h2"}]

\* the requests: prev and last not given, for a document with and without
\* configuration; for d3, which is in no configuration; and with current
\* asked for as the previous version
AnalyzeRequest(config, document_id, prev) ==
    [config |-> config, document_id |-> document_id, prev |-> prev,
     last |-> NoFile]
AnalyzeRequests ==
    {AnalyzeRequest(File(BothDocuments), "d1", NoFile),
     AnalyzeRequest(NoFile, "d1", NoFile),
     AnalyzeRequest(File(BothDocuments), "d3", NoFile),
     AnalyzeRequest(File(BothDocuments), "d1", File(Version("current", 1)))}

\* tos.py 437-564: POST /tos/{document_id}.  analysis_result is what
\* compare_documents answers if it is called; the outcome is the status, the
\* text of the response and the requests sent to the LLM.
analyze_tos_document(fs, config, document_id, prev, last, analysis_result) ==
    LET respond(status_code, content, requests) ==
            [status_code |-> status_code, content |-> content,
             requests |-> requests]
        documents == IF config = NoFile THEN << >> ELSE config[1]
        prev_version == IF prev /= NoFile THEN prev[1]
                        ELSE Version("prev", 1)
        latest_version == IF last /= NoFile THEN last[1]
                          ELSE Version("last", 1)
        prev_doc == get_tos_document(fs, document_id, prev_version)
        latest_doc == get_tos_document(fs, document_id, latest_version)
    IN  IF config = NoFile
        THEN respond(404, "Document configuration not found", << >>)
        ELSE IF ~\E i \in 1..Len(documents) : documents[i].id = document_id
        THEN respond(404, "not found in configuration", << >>)
        ELSE IF prev_doc = NoFile
        THEN respond(404, "Previous version not found", << >>)
        ELSE IF latest_doc = NoFile
        THEN respond(404, "Latest version not found", << >>)
        ELSE IF prev_doc[1].content = ""
        THEN respond(422, "Previous version has no content", << >>)
        ELSE IF latest_doc[1].content = ""
        THEN respond(422, "Latest version has no content", << >>)
        ELSE IF content_strip(prev_doc[1].content)
                    = content_strip(latest_doc[1].content)
        THEN respond(200, "No differences found", << >>)
        ELSE respond(200,
                     IF Truthy(analysis_result) THEN analysis_result[1]
                     ELSE "Error: AI analysis returned empty result",
                     <<[previous_content |-> prev_doc[1].content,
                        current_content |-> latest_doc[1].content]>>)

\* one request POST /tos/{document_id}; nothing is written
Analyze(config, document_id, prev, last, analysis_result) ==
    LET r == analyze_tos_document(tos, config, document_id, prev, last,
                                  analysis_result)
    IN  /\ nruns < MaxBatches
        /\ nruns' = nruns + 1
        /\ batch' = [NoBatch EXCEPT
                       !.kind = "analyze_tos_document",
                       !.status_code = r.status_code,
                       !.answers = r.requests,
                       !.response = File(r.content)]
        /\ UNCHANGED <<tos, today, call, result, hist, ncalls, store, run, llm,
                       fetch, proc, pure>>

\* ingests of one document, and an analysis of it
AnalyzeNext ==
    \/ Tick
    \/ \E d \in FaultDocs, c \in AnalyzeContents, m \in AnalyzeMetadatas :
          Ingest(d, c, m)
    \/ \E request \in AnalyzeRequests, out \in LlmOutputs :
          Analyze(request.config, request.document_id, request.prev,
                  request.last, out)

AnalyzeSpec == Init /\ [][AnalyzeNext]_vars

\* ------------------------------------------------------------ the pure helpers
\* everything but the helper calls is as after construction
Constructed ==
    /\ tos = [d \in Docs |-> EmptyDoc]
    /\ today = 1
    /\ call = [d \in Docs |-> NoCall]
    /\ result = [d \in Docs |-> NoResult]
    /\ hist = [d \in Docs |-> NoHist]
    /\ ncalls = 0
    /\ store = EmptyStore
    /\ run = [d \in Docs |-> NoRun]
    /\ llm = [d \in Docs |-> << >>]
    /\ nruns = 0
    /\ batch = NoBatch
    /\ fetch = NoFetch
    /\ proc = [p \in Procs |-> NoProc]

\* any two hash dictionaries
HashInit ==
    /\ Constructed
    /\ cmp \in {[NoCmp EXCEPT !.pc = "input", !.old_hashes = o,
                                !.new_hashes = n] : o, n \in HashDicts}
    /\ prm = NoPrm

\* hashing.py 171-242 applied to them
Compare ==
    /\ cmp.pc = "input"
    /\ cmp' = [cmp EXCEPT
                 !.pc = "compared",
                 !.changes = compare_hashes(cmp.old_hashes, cmp.new_hashes),
                 !.create_snapshot =
                     should_create_snapshot(cmp.old_hashes, cmp.new_hashes),
                 !.generate_diff =
                     should_generate_diff(cmp.old_hashes, cmp.new_hashes)]
    /\ UNCHANGED <<tos, today, call, result, hist, ncalls, store, run, llm,
                   nruns, batch, fetch, proc, prm>>

HashNext == Compare

HashSpec == HashInit /\ [][HashNext]_vars

\* any two non-empty texts
TextInit ==
    /\ Constructed
    /\ cmp \in {[NoCmp EXCEPT !.pc = "texts", !.old_content = o,
                                !.new_content = n] : o, n \in Texts}
    /\ prm = NoPrm

\* hashing.py 194-208 applied to both
GenerateHashes ==
    /\ cmp.pc = "texts"
    /\ cmp' = [cmp EXCEPT
                 !.pc = "hashed",
                 !.old_hashes = generate_text_hashes(cmp.old_content),
                 !.new_hashes = generate_text_hashes(cmp.new_content)]
    /\ UNCHANGED <<tos, today, call, result, hist, ncalls, store, run, llm,
                   nruns, batch, fetch, proc, prm>>

TextNext == GenerateHashes

TextSpec == TextInit /\ [][TextNext]_vars

\* any prompt store of either backend, and a document
PromptInit ==
    /\ Constructed
    /\ cmp = NoCmp
    /\ prm \in {[NoPrm EXCEPT !.pc = "input", !.backend = b, !.files = f,
                                !.doc_id = d] :
                   b \in Backends, f \in [PromptFiles -> Templates], d \in Docs}

\* generate_diffs.py 247
LoadDiffPrompt ==
    /\ prm.pc = "input"
    /\ prm' = [prm EXCEPT
                 !.pc = "loaded",
                 !.loaded = load_diff_prompt(prm.backend, prm.files,
                                             prm.doc_id)]
    /\ UNCHANGED <<tos, today, call, result, hist, ncalls, store, run, llm,
                   nruns, batch, fetch, proc, cmp>>

PromptNext == LoadDiffPrompt

PromptSpec == PromptInit /\ [][PromptNext]_vars

\* ------------------------------------------------------------- notions of the claims
\* the dates under which the document has a dated snapshot file
DatedOf(f) ==
    {t \in Dates : f.dated_txt[t] /= NoFile \/ f.dated_json[t] /= NoFile}

\* TRACKED: a last pointer exists; EMPTY otherwise
Tracked(f) == f.last_txt /= NoFile

\* the snapshot the last pointer names loads (content and metadata)
LastLoads(f) ==
    /\ Tracked(f)
    /\ Truthy(f.dated_txt[f.last_txt[1]])
    /\ f.dated_json[f.last_txt[1]] /= NoFile

\* the structural hash stored with the snapshot the last pointer names
LastStructural(f) == get_structural(f.dated_json[f.last_txt[1]][1])

\* an "unknown" hash: the key is missing, or the value is the empty string
Unknown(h) == h = None \/ h = ""

\* a step that is the call store_tos_document(d, c, m): the arguments of a
\* call are what call'[d] records, so these are all the calls for d
IngestOf(d, c, m) ==
    /\ c = call'[d].content
    /\ m = call'[d].metadata
    /\ Ingest(d, c, m)

FaultyIngestOf(d, c, m, rf) ==
    /\ c = call'[d].content
    /\ m = call'[d].metadata
    /\ rf = call'[d].rf
    /\ FaultyIngest(d, c, m, rf)

\* what a pair of stored files reads as: the {content, metadata} dict, or
\* nothing when either is missing or the content is empty
Loaded(content, metadata_str) ==
    IF Truthy(content) /\ metadata_str /= NoFile
    THEN File([content |-> content[1], metadata |-> metadata_str[1]])
    ELSE NoFile

\* a step that is a changing ingest of document d
ChangingIngest(d) ==
    /\ result'[d].changes_detected
    /\ IngestOf(d, call'[d].content, call'[d].metadata)

\* the dates under which the document has a snapshot directory
SnapshotDates(st, d) ==
    {t \in Dates : \/ st.snapshots[d].content_txt[t] /= NoFile
                   \/ st.snapshots[d].metadata_json[t] /= NoFile}

\* the greatest date of a set, and the two newest snapshots of a document
Newest(S) == CHOOSE t \in S : \A u \in S : u <= t
CurrentTs(st, d) == Newest(SnapshotDates(st, d))
PreviousTs(st, d) == Newest(SnapshotDates(st, d) \ {CurrentTs(st, d)})
HasPair(st, d) == Cardinality(SnapshotDates(st, d)) >= 2

\* both newest snapshots are complete, with these hashes in their metadata
PairComplete(st, d) ==
    /\ HasPair(st, d)
    /\ \A t \in {PreviousTs(st, d), CurrentTs(st, d)} :
          /\ st.snapshots[d].content_txt[t] /= NoFile
          /\ st.snapshots[d].metadata_json[t] /= NoFile
PreviousHashes(st, d) == st.snapshots[d].metadata_json[PreviousTs(st, d)][1]
CurrentHashes(st, d) == st.snapshots[d].metadata_json[CurrentTs(st, d)][1]

\* the latest stored diff records the pair of the two newest snapshots
LatestCoversPair(st, d) ==
    /\ st.latest[d].diff_txt /= NoFile
    /\ st.latest[d].diff_metadata_json /= NoFile
    /\ st.latest[d].diff_metadata_json[1].previous_snapshot_timestamp
           = PreviousTs(st, d)
    /\ st.latest[d].diff_metadata_json[1].current_snapshot_timestamp
           = CurrentTs(st, d)

\* the two newest snapshots differ structurally and share a fingerprint
FormattingOnly(st, d) ==
    /\ PairComplete(st, d)
    /\ PreviousHashes(st, d).structural /= CurrentHashes(st, d).structural
    /\ PreviousHashes(st, d).fingerprint = CurrentHashes(st, d).fingerprint
    /\ PreviousHashes(st, d).fingerprint \notin {None, ""}

\* ------------------------------------------------------------- C1
\* C1: first ingest.  A call store_tos_document for a doc_id with no stored
\* state reports changes_detected, leaves exactly one dated snapshot, the one
\* of the ingest date, holding what was ingested, sets last to that date and
\* leaves prev absent.
C1_FirstIngest ==
    [][\A d \in Docs, c \in Contents, m \in Metadatas :
         (tos[d] = EmptyDoc /\ IngestOf(d, c, m)) =>
            /\ result'[d].changes_detected
            /\ DatedOf(tos'[d]) = {today}
            /\ tos'[d].dated_txt[today] = File(c)
            /\ tos'[d].dated_json[today] = File(m)
            /\ tos'[d].last_txt = File(today)
            /\ tos'[d].prev_txt = NoFile]_vars

\* a document first ingested after another document already was, on a later day
C1_Witness ==
    \E d \in Docs, e \in Docs :
        /\ d /= e /\ call[e].called /\ call[d].called
        /\ call[e].timestamp < call[d].timestamp
        /\ hist[d].lastBefore = NoFile
        /\ result[d].changes_detected
        /\ DatedOf(tos[d]) = {call[d].timestamp}
        /\ tos[d].prev_txt = NoFile

\* ------------------------------------------------------------- C2
\* C2: depth-1 history.  Once a document has had changing ingests on two or
\* more distinct dates, prev holds the date last held immediately before the
\* most recent changing ingest, and last holds the date of that ingest.
C2_DepthOneHistory ==
    \A d \in Docs :
        Cardinality(hist[d].changeDays) >= 2 =>
            /\ tos[d].prev_txt = hist[d].lastBefore
            /\ tos[d].prev_txt /= NoFile
            /\ tos[d].last_txt = hist[d].lastChange

\* three changing ingests on three days: prev is the second, not the first
C2_Witness ==
    \E d \in Docs :
        /\ Cardinality(hist[d].changeDays) >= 3
        /\ tos[d].prev_txt /= NoFile
        /\ tos[d].prev_txt[1] > 1
        /\ tos[d].last_txt[1] > tos[d].prev_txt[1]

\* ------------------------------------------------------------- C3
\* C3: unchanged re-ingest.  An ingest whose structural hash equals the one
\* stored with the snapshot last designates changes current only: last, prev
\* and every dated snapshot are as before, and the changed marker is absent.
C3_UnchangedReingest ==
    [][\A d \in Docs, c \in Contents, m \in Metadatas :
         ( /\ IngestOf(d, c, m)
           /\ Tracked(tos[d])
           /\ tos[d].dated_json[tos[d].last_txt[1]] /= NoFile
           /\ LastStructural(tos[d]) = get_structural(m) ) =>
            /\ ~result'[d].changes_detected
            /\ tos'[d] = [tos[d] EXCEPT !.current_txt = File(c),
                                        !.current_json = File(m),
                                        !.changed = NoFile]]_vars

\* an unchanged re-ingest on a later day with another text: current moved,
\* the snapshot last designates kept the old text, the marker is gone
C3_Witness ==
    \E d \in Docs :
        /\ call[d].called /\ ~result[d].changes_detected
        /\ Tracked(tos[d])
        /\ tos[d].last_txt[1] < call[d].timestamp
        /\ tos[d].current_txt /= tos[d].dated_txt[tos[d].last_txt[1]]
        /\ DatedOf(tos[d]) = {tos[d].last_txt[1]}
        /\ tos[d].changed = NoFile

\* ------------------------------------------------------------- C4
\* C4: for a TRACKED document whose last-designated snapshot loads, the call
\* reports changes_detected exactly when the new structural hash differs from
\* the one stored with the snapshot last designates, whatever current, prev
\* or older dated snapshots hold.
C4_ComparesWithLast ==
    [][\A d \in Docs, c \in Contents, m \in Metadatas :
         (IngestOf(d, c, m) /\ LastLoads(tos[d])) =>
            (result'[d].changes_detected
                <=> get_structural(m) /= LastStructural(tos[d]))]_vars

\* content reverting to an older version (a dated snapshot that is neither
\* last nor prev carries the same hash) still counted as changed
C4_Witness ==
    \E d \in Docs :
        /\ call[d].called /\ result[d].changes_detected
        /\ tos[d].prev_txt /= NoFile
        /\ tos[d].prev_txt /= tos[d].last_txt
        /\ \E t \in DatedOf(tos[d]) :
              /\ t < tos[d].prev_txt[1]
              /\ tos[d].dated_json[t] = File(call[d].metadata)
              /\ ~Unknown(get_structural(call[d].metadata))

\* ------------------------------------------------------------- C5
\* C5: an unknown structural hash (missing or empty) always compares as
\* changed: if the new metadata or the snapshot last designates has no
\* structural hash, the call reports changes_detected and rolls the pointers,
\* also when the hash is missing on both sides.
C5_UnknownHashIsChanged ==
    [][\A d \in Docs, c \in Contents, m \in Metadatas :
         ( /\ IngestOf(d, c, m)
           /\ \/ Unknown(get_structural(m))
              \/ LastLoads(tos[d]) /\ Unknown(LastStructural(tos[d])) ) =>
            /\ result'[d].changes_detected
            /\ tos'[d].last_txt = File(today)]_vars

\* ------------------------------------------------------------- C7
\* C7: after every call, changed or not, current holds exactly the content
\* and metadata of the document's most recent call, and reading version
\* "current" returns them.
C7_CurrentIsLatest ==
    \A d \in Docs :
        call[d].called =>
            /\ tos[d].current_txt = File(call[d].content)
            /\ tos[d].current_json = File(call[d].metadata)
            /\ get_tos_document(tos, d, Version("current", 1))
                   = File([content |-> call[d].content,
                           metadata |-> call[d].metadata])

\* an unchanged ingest moved current away from what last designates
C7_Witness ==
    \E d \in Docs :
        /\ call[d].called /\ ~result[d].changes_detected
        /\ get_tos_document(tos, d, Version("current", 1)) /= NoFile
        /\ get_tos_document(tos, d, Version("current", 1))
               /= get_tos_document(tos, d, Version("last", 1))

\* ------------------------------------------------------------- C8
\* C8: changed marker.  After a document's ingest the marker is present
\* exactly if that most recent ingest reported changes_detected, and then it
\* holds the ingest date, which is also what last holds.
C8_ChangedMarker ==
    \A d \in Docs :
        call[d].called =>
            /\ (tos[d].changed /= NoFile) <=> result[d].changes_detected
            /\ tos[d].changed /= NoFile =>
                  /\ tos[d].changed = File(call[d].timestamp)
                  /\ tos[d].changed = tos[d].last_txt

\* an unchanged ingest after a changing one: the earlier marker did not survive
C8_Witness ==
    \E d \in Docs :
        /\ call[d].called /\ ~result[d].changes_detected
        /\ hist[d].changeDays /= {}
        /\ tos[d].changed = NoFile

\* ------------------------------------------------------------- C9
\* C9: every result has snapshot_created = changes_detected, and timestamp is
\* the ingest date when changes_detected and None otherwise.
C9_ResultShape ==
    \A d \in Docs :
        call[d].called =>
            /\ result[d].snapshot_created = result[d].changes_detected
            /\ result[d].timestamp =
                  IF result[d].changes_detected
                  THEN File(call[d].timestamp) ELSE NoFile

\* both shapes of result at once: one document changed, the other did not
C9_Witness ==
    \E d \in Docs, e \in Docs :
        /\ call[d].called /\ call[e].called
        /\ result[d].changes_detected /\ result[d].timestamp = File(2)
        /\ ~result[e].changes_detected /\ result[e].timestamp = NoFile

\* ------------------------------------------------------------- C10
\* C10: a document is EMPTY until its first ingest and TRACKED from then on:
\* once ingested, the last pointer exists, names a dated snapshot that
\* exists, and no later ingest removes it.
C10_StaysTracked ==
    \A d \in Docs :
        /\ call[d].called <=> Tracked(tos[d])
        /\ Tracked(tos[d]) =>
              /\ tos[d].last_txt[1] \in DatedOf(tos[d])
              /\ LastLoads(tos[d])

\* still TRACKED after a changing and then an unchanged ingest
C10_Witness ==
    \E d \in Docs :
        /\ Tracked(tos[d]) /\ ~result[d].changes_detected
        /\ Cardinality(hist[d].changeDays) >= 2
        /\ \E e \in Docs : ~Tracked(tos[e])

C11_AppendOnly ==
    [][\A d \in Docs, t \in Dates :
         /\ tos[d].dated_txt[t] /= NoFile => tos'[d].dated_txt[t] /= NoFile
         /\ tos[d].dated_json[t] /= NoFile => tos'[d].dated_json[t] /= NoFile
         /\ (\E u \in DatedOf(tos[d]) : u > t) =>
                /\ tos'[d].dated_txt[t] = tos[d].dated_txt[t]
                /\ tos'[d].dated_json[t] = tos[d].dated_json[t]]_vars

\* a changing ingest has run while snapshots of two earlier dates existed,
\* and those two are still there
C11_Witness ==
    \E d \in Docs :
        /\ Cardinality(DatedOf(tos[d])) >= 3
        /\ result[d].changes_detected
        /\ \E t, u \in DatedOf(tos[d]) : t < u /\ u < call[d].timestamp

\* ------------------------------------------------------------- C12
\* C12: same-day collapse.  When a document whose last changing ingest was
\* today is ingested again today with a different structural hash, the day
\* still has one dated snapshot, now holding the second ingest, current
\* holds the second ingest too, and the set of snapshot dates is as before.
\* No step adds a snapshot date other than today, so the number of dated
\* snapshots grows by at most one per calendar day.
C12_SameDayCollapse ==
    [][\A d \in Docs :
         /\ DatedOf(tos'[d]) \ DatedOf(tos[d]) \subseteq {today}
         /\ \A c \in Contents, m \in Metadatas :
              (/\ tos[d].last_txt = File(today)
               /\ get_structural(m) /= LastStructural(tos[d])
               /\ IngestOf(d, c, m)) =>
                  /\ result'[d].changes_detected
                  /\ DatedOf(tos'[d]) = DatedOf(tos[d])
                  /\ tos'[d].dated_txt[today] = File(c)
                  /\ tos'[d].dated_json[today] = File(m)
                  /\ tos'[d].current_txt = File(c)
                  /\ tos'[d].current_json = File(m)]_vars

\* the most recent changing ingest found last naming its own day, and the
\* snapshot of that day holds what it stored
C12_Witness ==
    \E d \in Docs :
        /\ result[d].changes_detected
        /\ hist[d].lastBefore = File(call[d].timestamp)
        /\ hist[d].changeDays = {call[d].timestamp}
        /\ DatedOf(tos[d]) = {call[d].timestamp}
        /\ tos[d].dated_txt[call[d].timestamp] = File(call[d].content)
        /\ tos[d].current_txt = File(call[d].content)

C14_EndToEndLineage ==
    [][\A d \in DiffDocs, out \in LlmOutputs :
         LET f == tos[d]
             previous == f.dated_txt[f.prev_txt[1]][1]
             current == f.dated_txt[f.last_txt[1]][1]
             latest == get_latest_diff(store', d)
         IN  (/\ f.prev_txt /= NoFile
              /\ f.last_txt /= NoFile
              /\ f.prev_txt[1] < f.last_txt[1]
              /\ compare_hashes(generate_all_hashes(previous),
                                generate_all_hashes(current))
                     = [structural |-> TRUE, fingerprint |-> TRUE]
              /\ Truthy(out)
              /\ GenerateDiff(d, FALSE, out)) =>
                 /\ run'[d].request
                        = File([previous_content |-> previous,
                                current_content |-> current,
                                previous_timestamp |-> f.prev_txt[1],
                                current_timestamp |-> f.last_txt[1]])
                 /\ Len(llm'[d]) = Len(llm[d]) + 1
                 /\ run'[d].result.diff_generated
                 /\ latest /= NoFile
                 /\ latest[1].metadata.previous_snapshot_timestamp
                        = f.prev_txt[1]
                 /\ latest[1].metadata.current_snapshot_timestamp
                        = f.last_txt[1]]_vars

C16_Deduplication ==
    [][\A d \in DiffDocs :
         /\ \A out \in LlmOutputs :
              (HasPair(store, d) /\ GenerateDiff(d, FALSE, out)) =>
                  IF LatestCoversPair(store, d)
                  THEN /\ run'[d].result.success
                       /\ ~run'[d].result.diff_generated
                       /\ run'[d].result.error_message
                              = "Diff already exists for these snapshots"
                       /\ llm' = llm
                       /\ store' = store
                  ELSE run'[d].result.error_message
                           /= "Diff already exists for these snapshots"
         /\ \A i, j \in 1..Len(llm'[d]) :
              (/\ i /= j
               /\ llm'[d][i].previous_timestamp = llm'[d][j].previous_timestamp
               /\ llm'[d][i].current_timestamp = llm'[d][j].current_timestamp
               /\ llm'[d][i].answered /\ llm'[d][j].answered) =>
                  llm'[d][i].force \/ llm'[d][j].force]_vars

\* a diff was generated, and the next run without force was skipped as
\* already existing
C16_Witness ==
    \E d \in DiffDocs :
        /\ run[d].called /\ ~run[d].force
        /\ run[d].result.error_message
               = "Diff already exists for these snapshots"
        /\ LatestCoversPair(store, d)
        /\ Len(llm[d]) = 1
        /\ llm[d][1].answered

\* ------------------------------------------------------------- C17
\* C17: not enough history.  A run for a document with fewer than two dated
\* snapshots ends with success true and diff_generated false, sends nothing
\* to the LLM, writes nothing, and its result counts as succeeded, not as an
\* error, in the batch summary.
C17_TooFewSnapshots ==
    [][\A d \in DiffDocs, force \in BOOLEAN, out \in LlmOutputs :
         (~HasPair(store, d) /\ GenerateDiff(d, force, out)) =>
             /\ run'[d].result.success
             /\ ~run'[d].result.diff_generated
             /\ llm' = llm
             /\ store' = store
             /\ batch_summary(<<run'[d].result>>)
                    = [processed_count |-> 1, success_count |-> 1,
                       error_count |-> 0, diffs_generated |-> 0]]_vars

\* a run has found exactly one snapshot
C17_Witness ==
    \E d \in DiffDocs :
        /\ run[d].called
        /\ Cardinality(SnapshotDates(store, d)) = 1
        /\ run[d].result.error_message = "Need at least 2 snapshots for diff"
        /\ run[d].result.success

\* ------------------------------------------------------------- C18
\* C18: pair selection.  Whenever a document has two or more dated
\* snapshots, a run takes the greatest date as current_ts and the second
\* greatest as previous_ts, however many older snapshots there are: these
\* are the timestamps it reports and the snapshots it sends to the LLM, and
\* previous_ts is before current_ts.
C18_PairSelection ==
    [][\A d \in DiffDocs, force \in BOOLEAN, out \in LlmOutputs :
         (HasPair(store, d) /\ GenerateDiff(d, force, out)) =>
             LET r == run'[d].result
                 current_ts == CurrentTs(store, d)
                 previous_ts == PreviousTs(store, d)
             IN  /\ select_snapshots(get_document_snapshots(store, d))
                        = [current_timestamp |-> current_ts,
                           previous_timestamp |-> previous_ts]
                 /\ previous_ts < current_ts
                 /\ \A t \in SnapshotDates(store, d) \ {current_ts} :
                        t <= previous_ts
                 /\ r.current_snapshot_timestamp = File(current_ts)
                 /\ r.previous_snapshot_timestamp = File(previous_ts)
                 /\ run'[d].request /= NoFile =>
                        run'[d].request
                            = File([previous_content |->
                                        store.snapshots[d].content_txt[previous_ts][1],
                                    current_content |->
                                        store.snapshots[d].content_txt[current_ts][1],
                                    previous_timestamp |-> previous_ts,
                                    current_timestamp |-> current_ts])]_vars

\* with three dated snapshots, a run has sent the two newest to the LLM
C18_Witness ==
    \E d \in DiffDocs :
        /\ Cardinality(SnapshotDates(store, d)) >= 3
        /\ run[d].request /= NoFile
        /\ run[d].request[1].current_timestamp = CurrentTs(store, d)
        /\ run[d].request[1].previous_timestamp = PreviousTs(store, d)
        /\ \E t \in SnapshotDates(store, d) : t < PreviousTs(store, d)

\* ------------------------------------------------------------- C19
\* C19: unloadable snapshot.  A run that gets as far as loading the two
\* selected snapshots and cannot load the content or the metadata of one of
\* them ends with success false and diff_generated false, sends nothing to
\* the LLM and stores nothing.
C19_LoadFailure ==
    [][\A d \in DiffDocs, force \in BOOLEAN, out \in LlmOutputs,
          rf \in LoadFaults :
         (/\ HasPair(store, d)
          /\ force \/ ~LatestCoversPair(store, d)
          /\ rf /= {}
          /\ FaultyGenerateDiff(d, force, out, rf)) =>
             /\ ~run'[d].result.success
             /\ ~run'[d].result.diff_generated
             /\ llm' = llm
             /\ store' = store]_vars

\* ------------------------------------------------------------- C20
\* C20: stored diff.  A run in which the LLM is asked and answers stores,
\* under the day of the run, the answer with metadata recording the previous
\* and current snapshot timestamps, the model and the generation time, and
\* get_latest_diff then returns exactly that content and metadata.  Every
\* other step leaves what get_latest_diff returns as it was, so the latest
\* diff is always the most recently generated one.
C20_LatestDiff ==
    [][\A d \in DiffDocs :
         LET generated(out) ==
                 [content |-> out[1],
                  metadata |->
                      [previous_snapshot_timestamp |-> PreviousTs(store, d),
                       current_snapshot_timestamp |-> CurrentTs(store, d),
                       llm_model |-> "model",
                       generated_at |-> today]]
         IN  IF \E force \in BOOLEAN, out \in LlmOutputs :
                    /\ GenerateDiff(d, force, out)
                    /\ run'[d].request /= NoFile
                    /\ Truthy(out)
             THEN \A force \in BOOLEAN, out \in LlmOutputs :
                    (GenerateDiff(d, force, out) /\ Truthy(out)) =>
                        /\ run'[d].result.success
                        /\ run'[d].result.diff_generated
                        /\ run'[d].result.timestamp = File(today)
                        /\ store'.diffs[d].diff_txt[today]
                               = File(generated(out).content)
                        /\ store'.diffs[d].metadata_json[today]
                               = File(generated(out).metadata)
                        /\ get_latest_diff(store', d) = File(generated(out))
             ELSE /\ get_latest_diff(store', d) = get_latest_diff(store, d)
                  /\ store'.diffs = store.diffs]_vars

\* two diffs were generated for two different pairs, and the latest diff is
\* the one of the second pair
C20_Witness ==
    \E d \in DiffDocs :
        /\ Len(llm[d]) = 2
        /\ llm[d][1].answered /\ llm[d][2].answered
        /\ llm[d][1].current_timestamp < llm[d][2].current_timestamp
        /\ get_latest_diff(store, d) /= NoFile
        /\ get_latest_diff(store, d)[1].metadata.current_snapshot_timestamp
               = llm[d][2].current_timestamp
        /\ get_latest_diff(store, d)[1].metadata.previous_snapshot_timestamp
               = llm[d][2].previous_timestamp

\* C21: when the LLM gives nothing for a document of a diff batch (None, which
\* is also what an exception inside the client becomes, or an empty text),
\* that document's result has success = false and diff_generated = false, no
\* file of the store changes for it (no diff artifact, latest diff pointer
\* as before), the LLM was asked once, and the loop goes on to the next
\* selected document.
C21_LlmFailure ==
    batch.kind = "generate_diffs" =>
        \A i \in 1..Len(batch.answers) :
            (/\ batch.answers[i].asked
             /\ batch.answers[i].answer \in {NoFile, File("")})
            => /\ ~batch.results[i].success
               /\ ~batch.results[i].diff_generated
               /\ ~batch.answers[i].stored
               /\ i < Len(batch.selected) => batch.attempted >= i + 1

\* the LLM returned an empty text for the first document of a batch of two,
\* and the second one has its result
C21_Witness ==
    /\ batch.kind = "generate_diffs"
    /\ Len(batch.selected) = 2
    /\ Len(batch.results) = 2
    /\ batch.answers[1].asked
    /\ batch.answers[1].answer = File("")
    /\ batch.results[1].error_message = "LLM failed to generate diff content"
    /\ batch.results[2].document_id = "d2"

\* C22: in an ingest batch and in a diff batch every selected document is
\* processed exactly once and in configuration order, also after a document
\* that failed: the results name the selected documents one for one, and the
\* response counts them (processed_count is their number, success_count +
\* error_count = processed_count, diffs_generated <= success_count).
C22_BatchAggregation ==
    (batch.kind /= "none" /\ batch.selected /= << >>) =>
        /\ Len(batch.results) = Len(batch.selected)
        /\ \A i \in 1..Len(batch.results) :
              batch.results[i].document_id =
                  IF batch.selected[i].id = None THEN "unknown"
                  ELSE batch.selected[i].id
        /\ batch.response /= NoFile
        /\ batch.response[1].processed_count = Len(batch.selected)
        /\ batch.response[1].success_count + batch.response[1].error_count
               = batch.response[1].processed_count
        /\ batch.kind = "generate_diffs" =>
               batch.response[1].diffs_generated
                   <= batch.response[1].success_count

\* C23: a stored diff artifact is never overwritten or deleted by a later
\* generation for the same document: every successful generation (forced ones
\* and ones on the same calendar day included) adds an artifact under a fresh
\* key, so the number of stored artifacts is the number of successful
\* generations.
C23_DiffHistory ==
    \A d \in DiffDocs :
        Cardinality({t \in Dates : store.diffs[d].diff_txt[t] /= NoFile})
            = Cardinality({i \in 1..Len(llm[d]) : llm[d][i].answered})

\* C24: when the document configuration of a batch request cannot be loaded,
\* lists no documents, or has no entry matching the document_ids filter, the
\* request fails with a request-level error (an HTTP 4xx/5xx status, no
\* per-document results) before any document is processed, and no file is
\* written.  The configuration is request.documents where the ingest request
\* gives it, documents.json otherwise.
C24_ConfigFailure ==
    batch.kind /= "none" =>
        LET documents == IF batch.request.documents /= << >>
                         THEN File(batch.request.documents)
                         ELSE batch.request.config
            ids == batch.request.document_ids
            fails == \/ documents = NoFile
                     \/ documents[1] = << >>
                     \/ /\ ids /= {}
                        /\ \A i \in 1..Len(documents[1]) :
                              documents[1][i].id \notin ids
        IN  fails => /\ batch.status_code \in {400, 500}
                     /\ batch.response = NoFile
                     /\ batch.attempted = 0
                     /\ batch.results = << >>
                     /\ ~batch.wrote

\* a diff batch whose filter names no configured document was refused while
\* the store holds two snapshots of d1
C24_Witness ==
    /\ batch.kind = "generate_diffs"
    /\ batch.request.config = File(BothDocuments)
    /\ batch.request.document_ids = {"d3"}
    /\ batch.status_code = 400
    /\ Len(get_document_snapshots(store, "d1")) >= 2

\* C25 as stated: fetch_page makes at most 3 requests; after every failed
\* attempt k (0-based) that is not the third it waits 2^k seconds and tries
\* again, and it does not wait after the final attempt; it returns the page
\* of the first successful attempt and nothing when all attempts fail, which
\* process_document reports as a failure of the document.
C25_RetryAsStated ==
    LET n == Len(fetch.outcomes)
    IN  /\ n <= 3
        /\ \A k \in 1..n :
              (fetch.outcomes[k] /= "page" /\ k < 3)
              => /\ Len(fetch.waits) >= k
                 /\ fetch.waits[k] = 2 ^ (k - 1)
        /\ Len(fetch.waits) <= 2
        /\ \A k \in 1..n :
              fetch.outcomes[k] = "page"
              => k = n /\ fetch.page_data /= NoFile
        /\ (/\ fetch.pc \in {"return", "done"}
            /\ \A k \in 1..n : fetch.outcomes[k] /= "page")
           => fetch.page_data = NoFile
        /\ (fetch.pc = "done" /\ fetch.page_data = NoFile)
           => /\ ~fetch.result.success
              /\ fetch.result.error_message
                     = "Failed to fetch document content"

\* the same with the wait and the retry only after a request error
C25_Bounded ==
    LET n == Len(fetch.outcomes)
    IN  /\ n <= 3
        /\ \A k \in 1..n :
              (fetch.outcomes[k] = "RequestException" /\ k < 3)
              => /\ Len(fetch.waits) >= k
                 /\ fetch.waits[k] = 2 ^ (k - 1)
        /\ Len(fetch.waits) <= 2
        /\ \A k \in 1..n :
              fetch.outcomes[k] = "Exception"
              => /\ k = n
                 /\ Len(fetch.waits) = k - 1
                 /\ fetch.pc \in {"return", "done"}
        /\ \A k \in 1..n :
              fetch.outcomes[k] = "page"
              => k = n /\ fetch.page_data /= NoFile
        /\ (/\ fetch.pc \in {"return", "done"}
            /\ \A k \in 1..n : fetch.outcomes[k] /= "page")
           => fetch.page_data = NoFile
        /\ (fetch.pc = "done" /\ fetch.page_data = NoFile)
           => /\ ~fetch.result.success
              /\ fetch.result.error_message
                     = "Failed to fetch document content"

\* C25: fetch_page ends after at most 3 requests, and process_document then
\* returns; after an attempt k (0-based) that fails with a request error and
\* is not the third it waits 2^k seconds and tries again, without a wait
\* after the final attempt; an attempt that fails with any other exception
\* ends the call at once, without wait or retry; the page of the first
\* successful attempt is returned, nothing when no attempt succeeds, which
\* process_document reports as a failure of the document.
C25_BoundedRetry ==
    /\ []C25_Bounded
    /\ (fetch.pc = "request") ~> (fetch.pc = "done")
    /\ (fetch.pc = "sleep") ~> (fetch.pc = "request")

\* a request error, one second of waiting, then an unexpected exception:
\* the call ended after two attempts and the document is reported as failed
C25_Witness ==
    /\ fetch.pc = "done"
    /\ fetch.outcomes = <<"RequestException", "Exception">>
    /\ fetch.waits = <<1>>
    /\ ~fetch.result.success

\* what the call c returns and leaves in the store when it runs alone on the
\* files its document had when it began
Alone(c) ==
    store_tos_document([tos EXCEPT ![c.doc_id] = c.pre], c.doc_id, c.content,
                       create_metadata(c.content), c.timestamp, {}, {})

\* the call of request p does its last file operation in this step
Completes(p) == proc[p].pc /= "return" /\ proc'[p].pc = "return"

\* the next step of c does the same to the files of its document, and leaves
\* c with the same local variables, whatever the other documents hold
ReadsOwnKeys(c) ==
    LET own == [b \in Docs |-> IF b = c.doc_id THEN tos[b] ELSE EmptyDoc]
    IN  /\ store_tos_document_step(own, c).c = store_tos_document_step(tos, c).c
        /\ store_tos_document_step(own, c).fs[c.doc_id]
               = store_tos_document_step(tos, c).fs[c.doc_id]

\* C26: an ingest for document A reads and writes only the files of A: its
\* steps do not depend on the files of another document B and leave them as
\* they are; so when ingests for distinct documents interleave, each ends
\* with its result and its document's files as if it had run alone.
C26_Isolation ==
    /\ [](\A p \in Procs : Running(proc[p]) => ReadsOwnKeys(proc[p]))
    /\ [][\A p \in Procs :
            (Running(proc[p]) /\ proc'[p].pc /= proc[p].pc)
            => \A b \in Docs \ {proc[p].doc_id} : tos'[b] = tos[b]]_vars
    /\ [][\A p \in Procs :
            (/\ Completes(p)
             /\ proc[p].met /= {}
             /\ proc[p].doc_id \notin proc[p].met)
            => /\ tos'[proc[p].doc_id] = Alone(proc[p]).fs[proc[p].doc_id]
               /\ proc'[p].changes_detected
                      = Alone(proc[p]).result.changes_detected]_vars

\* the calls of two requests, for d1 and for d2, were in progress together
\* and both have done their last step; d1 has its snapshot
C26_Witness ==
    /\ proc[1].pc = "return" /\ proc[2].pc = "return"
    /\ proc[1].doc_id = "d1" /\ proc[2].doc_id = "d2"
    /\ proc[1].met = {"d2"} /\ proc[2].met = {"d1"}
    /\ tos["d1"].last_txt /= NoFile
    /\ tos["d2"].last_txt /= NoFile

\* the files of document d after the calls c1 and then c2, each run alone,
\* starting from the files pre
Serial(pre, c1, c2) ==
    LET d == c1.doc_id
        f1 == store_tos_document([tos EXCEPT ![d] = pre], d, c1.content,
                                 create_metadata(c1.content), c1.timestamp,
                                 {}, {}).fs
    IN  store_tos_document(f1, d, c2.content, create_metadata(c2.content),
                           c2.timestamp, {}, {}).fs[d]

\* both calls are for one document, were in progress together and have done
\* their last step, and no serial order of the two gives the document's files
NonSerial ==
    /\ proc[1].pc = "return" /\ proc[2].pc = "return"
    /\ proc[1].doc_id = proc[2].doc_id
    /\ proc[1].doc_id \in proc[1].met
    /\ \A pre \in {proc[1].pre, proc[2].pre} :
          /\ tos[proc[1].doc_id] /= Serial(pre, proc[1], proc[2])
          /\ tos[proc[1].doc_id] /= Serial(pre, proc[2], proc[1])

OpsAt(c, op) == {i \in 1..Len(c.ops) : c.ops[i] = op}

\* the pointer operations a call has done are in the order of the code: a
\* read of last comes before every pointer write, and prev is written once,
\* before last
PointerOrder(c) ==
    /\ \A i \in OpsAt(c, "upload_prev") \cup OpsAt(c, "upload_last") :
          \E j \in OpsAt(c, "download_last") : j < i
    /\ \A i \in OpsAt(c, "upload_prev") :
          \A j \in OpsAt(c, "upload_last") : i < j
    /\ Cardinality(OpsAt(c, "upload_prev")) <= 1
    /\ Cardinality(OpsAt(c, "upload_last")) <= 1

\* C28: within a changing ingest the last pointer is read before any pointer
\* is written and prev is written before last is overwritten with T; prev
\* changes only in the demotion step of a changing ingest, only when the read
\* of last gave a date, and only to the date last holds at that step; last
\* changes only in the step after it, to the ingest's date.
C28_PointerOrder ==
    /\ [](\A p \in Procs : PointerOrder(proc[p]))
    /\ [][\A d \in Docs :
            tos'[d].prev_txt /= tos[d].prev_txt
            => \E p \in Procs :
                  /\ proc[p].doc_id = d
                  /\ proc[p].pc = "upload_prev"
                  /\ proc'[p].pc = "upload_last"
                  /\ proc[p].changes_detected
                  /\ OpsAt(proc[p], "upload_last") = {}
                  /\ proc[p].last_date_str /= NoFile
                  /\ tos[d].last_txt /= NoFile
                  /\ (d \notin proc[p].met
                        => proc[p].last_date_str = tos[d].last_txt)
                  /\ tos'[d].prev_txt = proc[p].last_date_str
                  /\ tos'[d].last_txt = tos[d].last_txt]_vars
    /\ [][\A d \in Docs :
            tos'[d].last_txt /= tos[d].last_txt
            => \E p \in Procs :
                  /\ proc[p].doc_id = d
                  /\ proc[p].pc = "upload_last"
                  /\ proc'[p].pc = "upload_dated_txt"
                  /\ proc[p].changes_detected
                  /\ tos'[d].last_txt = File(proc[p].timestamp)
                  /\ tos'[d].prev_txt = tos[d].prev_txt]_vars

\* a changing ingest has demoted the old last pointer and is about to
\* overwrite last: prev holds the date last still holds
C28_Witness ==
    \E p \in Procs :
        /\ proc[p].pc = "upload_last"
        /\ proc[p].ops = <<"download_last", "download_last", "upload_prev">>
        /\ proc[p].met = {}
        /\ tos[proc[p].doc_id].prev_txt = tos[proc[p].doc_id].last_txt
        /\ tos[proc[p].doc_id].last_txt /= File(proc[p].timestamp)

\* a hash of the type is there and not empty
Usable(hashes, hash_type) ==
    hash_type \in DOMAIN hashes /\ hashes[hash_type] \notin {None, ""}

\* C29: compare_hashes has an entry for every hash type of either side; the
\* entry is false exactly when both sides have a non-empty hash of the type
\* and the two are equal, so a hash missing or empty on either side, or on
\* both, counts as changed.  should_create_snapshot is the structural entry
\* and should_generate_diff the fingerprint entry, true when there is none.
C29_CompareHashes ==
    cmp.pc = "compared" =>
        LET types == DOMAIN cmp.old_hashes \cup DOMAIN cmp.new_hashes
        IN  /\ DOMAIN cmp.changes = types
            /\ \A t \in types :
                  cmp.changes[t] =
                      ~(/\ Usable(cmp.old_hashes, t)
                        /\ Usable(cmp.new_hashes, t)
                        /\ cmp.old_hashes[t] = cmp.new_hashes[t])
            /\ cmp.create_snapshot =
                   IF "structural" \in types THEN cmp.changes["structural"]
                   ELSE TRUE
            /\ cmp.generate_diff =
                   IF "fingerprint" \in types THEN cmp.changes["fingerprint"]
                   ELSE TRUE

\* no structural hash on either side, the content hash empty on both and the
\* same fingerprint on both: a snapshot is due, a diff is not
C29_Witness ==
    /\ cmp.pc = "compared"
    /\ cmp.old_hashes = [content |-> "", fingerprint |-> "h1"]
    /\ cmp.new_hashes = [content |-> "", fingerprint |-> "h1"]
    /\ cmp.changes = [content |-> TRUE, fingerprint |-> FALSE]
    /\ cmp.create_snapshot
    /\ ~cmp.generate_diff

\* C30 (as stated): the document's own template when the store has one, else
\* the default template when the store has it, else the built-in text; never
\* empty; and what is returned as the document's own template was read from
\* the document's own file, with either backend.
C30_PromptSelection ==
    prm.pc = "loaded" =>
        LET own == prm.files[comparison(prm.doc_id)]
            default == prm.files[comparison("default")]
        IN  /\ prm.loaded.prompt =
                   IF Truthy(own) THEN own[1]
                   ELSE IF Truthy(default) THEN default[1]
                   ELSE get_fallback_prompt
            /\ prm.loaded.prompt /= ""
            /\ prm.loaded.using = "document-specific"
                   => prm.loaded.path = File(comparison(prm.doc_id))

\* ------------------------------------------------------------- C31
\* the date a present last pointer names has a dated snapshot, content and
\* metadata
LastResolves(f) ==
    f.last_txt /= NoFile =>
        /\ f.dated_txt[f.last_txt[1]] /= NoFile
        /\ f.dated_json[f.last_txt[1]] /= NoFile

\* C31 (as stated): in every reachable state, the states between two storage
\* writes of an ingest included, a present last pointer names a dated
\* snapshot that exists.
C31_LastResolves ==
    \A d \in Docs : LastResolves(tos[d])

\* ------------------------------------------------------------- C36
\* C36 (as stated): a result with snapshot_created and timestamp T means the
\* store holds the dated snapshot T with the ingested content and metadata
\* and last names T, also when a write of the call failed.
C36_ReportedSnapshotStored ==
    \A d \in Docs :
        (call[d].called /\ result[d].snapshot_created) =>
            LET T == result[d].timestamp[1]
            IN  /\ result[d].timestamp /= NoFile
                /\ tos[d].last_txt = File(T)
                /\ tos[d].dated_txt[T] = File(call[d].content)
                /\ tos[d].dated_json[T] = File(call[d].metadata)
                /\ tos[d].current_txt = File(call[d].content)

\* ------------------------------------------------------------- C32
\* the two newest snapshots are complete and their fingerprints are equal
SameFingerprint(st, d) ==
    /\ PairComplete(st, d)
    /\ ~should_generate_diff(PreviousHashes(st, d), CurrentHashes(st, d))

\* C32: force_regenerate bypasses the "diff already exists" check only.  A
\* forced run with fewer than two snapshots does nothing; with both metadata
\* loaded and equal fingerprints it ends "No meaningful content changes
\* detected" without a request to the LLM; with differing fingerprints it
\* sends the LLM one request for the pair, also when the latest diff already
\* records the pair; and when the latest diff does not record the pair a
\* forced run does what a run without force does.
C32_ForceRegenerate ==
    [][\A d \in DiffDocs, out \in LlmOutputs :
         GenerateDiff(d, TRUE, out) =>
             /\ ~HasPair(store, d) =>
                    /\ run'[d].result.success
                    /\ ~run'[d].result.diff_generated
                    /\ llm' = llm /\ store' = store
             /\ SameFingerprint(store, d) =>
                    /\ run'[d].result.success
                    /\ ~run'[d].result.diff_generated
                    /\ run'[d].result.error_message
                           = "No meaningful content changes detected"
                    /\ llm' = llm /\ store' = store
             /\ (PairComplete(store, d) /\ ~SameFingerprint(store, d)) =>
                    /\ Len(llm'[d]) = Len(llm[d]) + 1
                    /\ llm'[d][Len(llm'[d])].force
                    /\ llm'[d][Len(llm'[d])].previous_timestamp
                           = PreviousTs(store, d)
                    /\ llm'[d][Len(llm'[d])].current_timestamp
                           = CurrentTs(store, d)
             /\ ~LatestCoversPair(store, d) =>
                    process_document_diff(store, d, TRUE, out, {}, today)
                        = process_document_diff(store, d, FALSE, out, {},
                                                today)]_vars

\* a diff was stored for the pair and a forced run then asked the LLM for
\* the same pair again
C32_Witness ==
    \E d \in DiffDocs :
        /\ run[d].called /\ run[d].force
        /\ Len(llm[d]) = 2
        /\ llm[d][1].answered /\ ~llm[d][1].force
        /\ llm[d][2].force
        /\ llm[d][2].previous_timestamp = llm[d][1].previous_timestamp
        /\ llm[d][2].current_timestamp = llm[d][1].current_timestamp
        /\ LatestCoversPair(store, d)

\* ------------------------------------------------------------- C33
\* C33 (as stated): with ingests run one at a time on non-decreasing days,
\* whenever prev and last are both set prev names a strictly earlier date
\* than last.
C33_PrevBeforeLast ==
    \A d \in Docs :
        (tos[d].prev_txt /= NoFile /\ tos[d].last_txt /= NoFile) =>
            tos[d].prev_txt[1] < tos[d].last_txt[1]

\* ------------------------------------------------------------- C34
\* C34: after every completed ingest the structural hash stored with current
\* is the one stored with the snapshot last designates; when the ingest
\* created that snapshot the two hold the same text, otherwise current holds
\* the ingested text, which may differ from the snapshot's.
C34_CurrentMatchesLast ==
    \A d \in Docs :
        call[d].called =>
            /\ tos[d].current_json /= NoFile
            /\ tos[d].last_txt /= NoFile
            /\ tos[d].dated_json[tos[d].last_txt[1]] /= NoFile
            /\ get_structural(tos[d].current_json[1])
                   = get_structural(tos[d].dated_json[tos[d].last_txt[1]][1])
            /\ tos[d].current_txt = File(call[d].content)
            /\ result[d].snapshot_created =>
                   tos[d].dated_txt[tos[d].last_txt[1]] = tos[d].current_txt

\* an unchanged re-ingest of another text: current and the snapshot last
\* designates hold different texts with the same structural hash
C34_Witness ==
    \E d \in Docs :
        /\ call[d].called
        /\ ~result[d].changes_detected
        /\ tos[d].last_txt /= NoFile
        /\ tos[d].last_txt[1] < call[d].timestamp
        /\ tos[d].current_txt /= tos[d].dated_txt[tos[d].last_txt[1]]
        /\ get_structural(tos[d].current_json[1])
               = get_structural(tos[d].dated_json[tos[d].last_txt[1]][1])

\* ------------------------------------------------------------- C35
\* tos.py 94-108: the dates of the dated content files of a document
available_dates(f) == {t \in Dates : f.dated_txt[t] /= NoFile}

\* C35 (as stated): after every completed ingest of a TRACKED document last
\* names the newest dated snapshot, and after changing ingests on two or more
\* distinct dates prev names the second newest.
C35_PointersMatchListing ==
    \A d \in Docs :
        (call[d].called /\ Tracked(tos[d])) =>
            /\ tos[d].last_txt[1] = Newest(available_dates(tos[d]))
            /\ Cardinality(hist[d].changeDays) >= 2 =>
                   /\ tos[d].prev_txt /= NoFile
                   /\ tos[d].prev_txt[1]
                          = Newest(available_dates(tos[d])
                                       \ {tos[d].last_txt[1]})

\* ------------------------------------------------------------- C37
\* the call fails before storage: the entry lacks id or url, fetch_page
\* returned nothing, or the text is empty after normalization
FailsBeforeStorage(doc_config, page_data) ==
    \/ doc_config.id = None
    \/ doc_config.url = None
    \/ page_data = NoFile
    \/ page_data[1] = ""

\* C37 (as stated): a per-document ingest that fails before storage returns
\* a result with success and changes_detected false and leaves every stored
\* file of the document as it was.
C37_FailedIngestFrame ==
    [][\A doc_config \in DocConfigs, page_data \in Pages :
         (/\ FailsBeforeStorage(doc_config, page_data)
          /\ process_document_call(doc_config, page_data)) =>
             /\ fetch'.pc = "done"
             /\ ~fetch'.result.success
             /\ ~fetch'.result.changes_detected
             /\ ~fetch'.result.snapshot_created
             /\ tos' = tos]_vars

\* ------------------------------------------------------------- C38
\* C38: the three hashes form a coarsening chain.  For any two non-empty
\* texts equal content hashes imply equal structural hashes and equal
\* structural hashes imply equal fingerprint hashes; so two texts whose
\* fingerprints differ (the diff gate) differ structurally (the snapshot
\* gate) as well.
C38_CoarseningChain ==
    cmp.pc = "hashed" =>
        LET old == cmp.old_hashes
            new == cmp.new_hashes
        IN  /\ old["content"] = new["content"]
                   => old["structural"] = new["structural"]
            /\ old["structural"] = new["structural"]
                   => old["fingerprint"] = new["fingerprint"]
            /\ old["fingerprint"] /= new["fingerprint"]
                   => /\ old["structural"] /= new["structural"]
                      /\ old["content"] /= new["content"]

\* each step of the chain is strict: two texts that differ in spacing before
\* a punctuation mark only share the structural hash, and two that differ in
\* a date only share the fingerprint
C38_Witness ==
    /\ cmp.pc = "hashed"
    /\ cmp.old_content = <<"a", " ", ",">>
    /\ cmp.new_content = <<"a", ",", "D">>
    /\ cmp.old_hashes["content"] /= cmp.new_hashes["content"]
    /\ cmp.old_hashes["structural"] /= cmp.new_hashes["structural"]
    /\ cmp.old_hashes["fingerprint"] = cmp.new_hashes["fingerprint"]
    /\ generate_hash(<<"a", ",">>, "structural") = cmp.old_hashes["structural"]
    /\ generate_hash(<<"a", ",">>, "content") /= cmp.old_hashes["content"]

\* ------------------------------------------------------------- C39
\* the pointer names a date whose snapshot loads
Resolves(f, pointer) ==
    /\ pointer /= NoFile
    /\ Truthy(f.dated_txt[pointer[1]])
    /\ f.dated_json[pointer[1]] /= NoFile

CurrentContent(st, d) == st.snapshots[d].content_txt[CurrentTs(st, d)][1]

\* the last run stored a diff, and the newest snapshot now holds a text whose
\* fingerprint differs from that of the text the diff was made for
NewerSnapshot(d) ==
    /\ run[d].called /\ run[d].result.diff_generated
    /\ get_latest_diff(store, d) /= NoFile
    /\ PairComplete(store, d)
    /\ should_generate_diff(
           generate_all_hashes(run[d].request[1].current_content),
           generate_all_hashes(CurrentContent(store, d)))

\* the run sent the LLM one request, for the two newest snapshots
AskedForPair(d) ==
    /\ Len(llm'[d]) = Len(llm[d]) + 1
    /\ run'[d].request
           = File([previous_content |->
                       store.snapshots[d].content_txt[PreviousTs(store, d)][1],
                   current_content |-> CurrentContent(store, d),
                   previous_timestamp |-> PreviousTs(store, d),
                   current_timestamp |-> CurrentTs(store, d)])

\* C40 (as stated): a run of process_document_diff without force decides from
\* the stored snapshots and the latest stored diff alone.  Whatever the runs
\* before it did (a failed LLM call and a fingerprint-gated skip included), it
\* asks the LLM exactly when there are two snapshots whose fingerprints
\* differ and the latest diff does not record their pair; a run that
\* generates nothing leaves the store as it was; and once a snapshot with a
\* differing fingerprint has arrived after the stored diff and the
\* fingerprints of the two newest snapshots differ, the run asks the LLM and
\* is not stopped by the older diff.
C40_Rerunnable ==
    [][\A d \in DiffDocs, out \in LlmOutputs :
         GenerateDiff(d, FALSE, out) =>
             /\ IF /\ PairComplete(store, d)
                   /\ ~SameFingerprint(store, d)
                   /\ ~LatestCoversPair(store, d)
                THEN AskedForPair(d)
                ELSE llm' = llm
             /\ ~run'[d].result.diff_generated => store' = store
             /\ (NewerSnapshot(d) /\ ~SameFingerprint(store, d)) =>
                    /\ AskedForPair(d)
                    /\ run'[d].result.error_message
                           /= "Diff already exists for these snapshots"]_vars

====
